---- MODULE Spec2Model ----
(***************************************************************************)
(* Model of the forbid-root-artifacts checker (check.py): the policy       *)
(* resolver build_whitelist, the scanner find_violations, the triage       *)
(* classifier classify_file and the main() pipeline that runs them.        *)
(*                                                                         *)
(* A Python str is a sequence of one-character strings; names and glob     *)
(* patterns are limited to printable ASCII.                                *)
(***************************************************************************)
EXTENDS Integers, Sequences, FiniteSets, TLC

(***************************************************************************)
(* Characters, str.lower() and the ordering of characters                  *)
(***************************************************************************)

\* ord(c) of the printable ASCII characters, 32 (space) to 126 (~).  "GRAVE"
\* stands for the grave accent (code point 96), which a TLA+ string cannot
\* hold.
OrdTable ==
    " " :> 32 @@ "!" :> 33 @@ "\"" :> 34 @@ "#" :> 35 @@ "$" :> 36 @@ "%" :> 37 @@
    "&" :> 38 @@ "'" :> 39 @@ "(" :> 40 @@ ")" :> 41 @@ "*" :> 42 @@ "+" :> 43 @@
    "," :> 44 @@ "-" :> 45 @@ "." :> 46 @@ "/" :> 47 @@ "0" :> 48 @@ "1" :> 49 @@
    "2" :> 50 @@ "3" :> 51 @@ "4" :> 52 @@ "5" :> 53 @@ "6" :> 54 @@ "7" :> 55 @@
    "8" :> 56 @@ "9" :> 57 @@ ":" :> 58 @@ ";" :> 59 @@ "<" :> 60 @@ "=" :> 61 @@
    ">" :> 62 @@ "?" :> 63 @@ "@" :> 64 @@ "A" :> 65 @@ "B" :> 66 @@ "C" :> 67 @@
    "D" :> 68 @@ "E" :> 69 @@ "F" :> 70 @@ "G" :> 71 @@ "H" :> 72 @@ "I" :> 73 @@
    "J" :> 74 @@ "K" :> 75 @@ "L" :> 76 @@ "M" :> 77 @@ "N" :> 78 @@ "O" :> 79 @@
    "P" :> 80 @@ "Q" :> 81 @@ "R" :> 82 @@ "S" :> 83 @@ "T" :> 84 @@ "U" :> 85 @@
    "V" :> 86 @@ "W" :> 87 @@ "X" :> 88 @@ "Y" :> 89 @@ "Z" :> 90 @@ "[" :> 91 @@
    "\\" :> 92 @@ "]" :> 93 @@ "^" :> 94 @@ "_" :> 95 @@ "GRAVE" :> 96 @@ "a" :> 97 @@
    "b" :> 98 @@ "c" :> 99 @@ "d" :> 100 @@ "e" :> 101 @@ "f" :> 102 @@ "g" :> 103 @@
    "h" :> 104 @@ "i" :> 105 @@ "j" :> 106 @@ "k" :> 107 @@ "l" :> 108 @@ "m" :> 109 @@
    "n" :> 110 @@ "o" :> 111 @@ "p" :> 112 @@ "q" :> 113 @@ "r" :> 114 @@ "s" :> 115 @@
    "t" :> 116 @@ "u" :> 117 @@ "v" :> 118 @@ "w" :> 119 @@ "x" :> 120 @@ "y" :> 121 @@
    "z" :> 122 @@ "{" :> 123 @@ "|" :> 124 @@ "}" :> 125 @@ "~" :> 126

Chars == DOMAIN OrdTable

ord(c) == OrdTable[c]

\* str.lower() moves A..Z to a..z and leaves every other character alone.
LowerTable ==
    "A" :> "a" @@ "B" :> "b" @@ "C" :> "c" @@ "D" :> "d" @@ "E" :> "e" @@ "F" :> "f" @@
    "G" :> "g" @@ "H" :> "h" @@ "I" :> "i" @@ "J" :> "j" @@ "K" :> "k" @@ "L" :> "l" @@
    "M" :> "m" @@ "N" :> "n" @@ "O" :> "o" @@ "P" :> "p" @@ "Q" :> "q" @@ "R" :> "r" @@
    "S" :> "s" @@ "T" :> "t" @@ "U" :> "u" @@ "V" :> "v" @@ "W" :> "w" @@ "X" :> "x" @@
    "Y" :> "y" @@ "Z" :> "z"

\* str.upper() moves a..z to A..Z (used to respell names in another case).
UpperTable ==
    "a" :> "A" @@ "b" :> "B" @@ "c" :> "C" @@ "d" :> "D" @@ "e" :> "E" @@ "f" :> "F" @@
    "g" :> "G" @@ "h" :> "H" @@ "i" :> "I" @@ "j" :> "J" @@ "k" :> "K" @@ "l" :> "L" @@
    "m" :> "M" @@ "n" :> "N" @@ "o" :> "O" @@ "p" :> "P" @@ "q" :> "Q" @@ "r" :> "R" @@
    "s" :> "S" @@ "t" :> "T" @@ "u" :> "U" @@ "v" :> "V" @@ "w" :> "W" @@ "x" :> "X" @@
    "y" :> "Y" @@ "z" :> "Z"

lower_char(c) == IF c \in DOMAIN LowerTable THEN LowerTable[c] ELSE c

upper_char(c) == IF c \in DOMAIN UpperTable THEN UpperTable[c] ELSE c

\* s.lower()
RECURSIVE lower(_)
lower(s) == IF s = <<>> THEN <<>> ELSE <<lower_char(Head(s))>> \o lower(Tail(s))

\* s.upper()
RECURSIVE upper(_)
upper(s) == IF s = <<>> THEN <<>> ELSE <<upper_char(Head(s))>> \o upper(Tail(s))

\* Python's < on str: lexicographic by code point, a proper prefix is smaller.
RECURSIVE StrLessFrom(_, _, _)
StrLessFrom(a, b, i) ==
  IF i > Len(b) THEN FALSE
  ELSE IF i > Len(a) THEN TRUE
  ELSE IF a[i] = b[i] THEN StrLessFrom(a, b, i + 1)
  ELSE ord(a[i]) < ord(b[i])

StrLess(a, b) == StrLessFrom(a, b, 1)

(***************************************************************************)
(* fnmatch.fnmatch(name, pat) as the code calls it (POSIX normcase is the   *)
(* identity): "*" any run of characters, "?" one character, "[seq]" one    *)
(* character of seq, "[!seq]" one character not of seq, anything else      *)
(* itself.  The whole name must match.                                     *)
(***************************************************************************)

\* The first "]" at or after position j of pat, 0 when there is none.
RECURSIVE ScanClose(_, _)
ScanClose(pat, j) ==
  IF j > Len(pat) THEN 0
  ELSE IF pat[j] = "]" THEN j
  ELSE ScanClose(pat, j + 1)

\* The "]" that closes the class opened by the "[" at position i: a leading
\* "!" and a "]" right after it are part of the class.  0: the "[" is literal.
ClassEnd(pat, i) ==
  LET j1 == IF i + 1 <= Len(pat) /\ pat[i + 1] = "!" THEN i + 2 ELSE i + 1
      j2 == IF j1 <= Len(pat) /\ pat[j1] = "]" THEN j1 + 1 ELSE j1
  IN  ScanClose(pat, j2)

\* Whether c is one of the characters the class body (after any "!") names:
\* "x-y" with something on both sides is the range x..y (empty when x > y),
\* every other character, a first or last "-" included, is itself.
RECURSIVE InClassBody(_, _, _)
InClassBody(c, body, k) ==
  IF k > Len(body) THEN FALSE
  ELSE IF k + 2 <= Len(body) /\ body[k + 1] = "-"
       THEN \/ (ord(body[k]) <= ord(c) /\ ord(c) <= ord(body[k + 2]))
            \/ InClassBody(c, body, k + 3)
       ELSE \/ c = body[k]
            \/ InClassBody(c, body, k + 1)

\* Whether c matches the class whose text between "[" and "]" is stuff.
InClass(c, stuff) ==
  IF stuff # <<>> /\ stuff[1] = "!"
  THEN ~InClassBody(c, Tail(stuff), 1)
  ELSE InClassBody(c, stuff, 1)

\* Whether name from position i on matches pat from position j on.
RECURSIVE MatchFrom(_, _, _, _)
MatchFrom(name, pat, i, j) ==
  IF j > Len(pat) THEN i > Len(name)
  ELSE IF pat[j] = "*"
       THEN \/ MatchFrom(name, pat, i, j + 1)
            \/ (i <= Len(name) /\ MatchFrom(name, pat, i + 1, j))
  ELSE IF i > Len(name) THEN FALSE
  ELSE IF pat[j] = "?" THEN MatchFrom(name, pat, i + 1, j + 1)
  ELSE IF pat[j] = "["
       THEN LET e == ClassEnd(pat, j)
            IN  IF e = 0
                THEN name[i] = "[" /\ MatchFrom(name, pat, i + 1, j + 1)
                ELSE /\ InClass(name[i], SubSeq(pat, j + 1, e - 1))
                     /\ MatchFrom(name, pat, i + 1, e + 1)
  ELSE name[i] = pat[j] /\ MatchFrom(name, pat, i + 1, j + 1)

fnmatch(name, pat) == MatchFrom(name, pat, 1, 1)

(***************************************************************************)
(* Python values                                                           *)
(*                                                                         *)
(* An Optional value is a sequence of length 0 (None) or 1 (the value), so *)
(* that None, the empty list [] and a populated list stay three values.    *)
(***************************************************************************)

None == <<>>

Some(x) == <<x>>

\* dict.get(key, default) on a parsed YAML mapping: a key the document does
\* not have is None here.
Get(field, default) == IF field = None THEN default ELSE field[1]

\* set(xs)
SetOf(xs) == {xs[i] : i \in 1..Len(xs)}

\* {f.lower() for f in xs}
LowerSet(xs) == {lower(xs[i]) : i \in 1..Len(xs)}

\* [f.lower() for f in xs]
LowerList(xs) == [i \in 1..Len(xs) |-> lower(xs[i])]

\* @dataclass DefaultConfig
DefaultConfig(files, patterns) == [files |-> files, patterns |-> patterns]

\* @dataclass Config
Config(mode, allow, deny, allowed_directories, ignore_patterns) ==
  [mode |-> mode, allow |-> allow, deny |-> deny,
   allowed_directories |-> allowed_directories,
   ignore_patterns |-> ignore_patterns]

\* @dataclass Violation
Violation(filename, reason) == [filename |-> filename, reason |-> reason]

FILE_NOT_IN_WHITELIST == "file not in whitelist"

DIRECTORY_NOT_ALLOWED == "directory not in allowed_directories"

(***************************************************************************)
(* The policy documents on disk and the loaders                            *)
(***************************************************************************)

\* A YAML file as the loaders see it: missing, unparsable (yaml.YAMLError),
\* parsed to something that is not a mapping (a list, a scalar), or parsed to
\* a mapping whose keys are each present (Some) or not (None).
AbsentDoc == [kind |-> "absent", data |-> <<>>]

MalformedDoc == [kind |-> "malformed", data |-> <<>>]

NotMappingDoc == [kind |-> "not_mapping", data |-> <<>>]

MappingDoc(data) == [kind |-> "mapping", data |-> <<data>>]

\* load_default_whitelist with the files kept as the document spells them.
load_default_whitelist_files_as_spelled(doc) ==
  IF doc.kind = "absent" THEN DefaultConfig(<<>>, <<>>)
  ELSE LET data == doc.data[1]
       IN  DefaultConfig(Get(data.files, <<>>), Get(data.patterns, <<>>))

\* load_default_whitelist, for the documents it returns on.
load_default_whitelist(doc) ==
  IF doc.kind = "absent" THEN DefaultConfig(<<>>, <<>>)
  ELSE LET data == doc.data[1]
       IN  DefaultConfig(LowerList(Get(data.files, <<>>)),
                         Get(data.patterns, <<>>))

\* load_user_config with allowed_directories read like the other lists:
\* data.get("allowed_directories", []) or [].
load_user_config_dirs_default_empty(doc) ==
  IF doc.kind = "absent" THEN None
  ELSE LET data == doc.data[1]
       IN  Some(Config(Get(data.mode, "extend"),
                       Get(data.allow, <<>>),
                       Get(data.deny, <<>>),
                       Some(Get(data.allowed_directories, <<>>)),
                       Get(data.ignore_patterns, <<>>)))

\* load_user_config, for the documents it returns on.
load_user_config(doc) ==
  IF doc.kind = "absent" THEN None
  ELSE LET data == doc.data[1]
       IN  Some(Config(Get(data.mode, "extend"),
                       Get(data.allow, <<>>),
                       Get(data.deny, <<>>),
                       data.allowed_directories,
                       Get(data.ignore_patterns, <<>>)))

\* load_user_config of configure.py: what it returns, or that it raised.
\* yaml.YAMLError is caught, a warning is printed and None is returned; the
\* AttributeError of data.get on a non-mapping is raised outside the try.
configure_load_user_config(doc) ==
  IF doc.kind \in {"absent", "malformed"}
  THEN [raised |-> FALSE, value |-> None]
  ELSE IF doc.kind = "not_mapping"
  THEN [raised |-> TRUE, value |-> None]
  ELSE LET data == doc.data[1]
       IN  [raised |-> FALSE,
            value |-> Some(Config(Get(data.mode, "extend"),
                                  Get(data.allow, <<>>),
                                  Get(data.deny, <<>>),
                                  data.allowed_directories,
                                  Get(data.ignore_patterns, <<>>)))]

(***************************************************************************)
(* Policy resolver                                                         *)
(***************************************************************************)

\* build_whitelist with the denials taken off the defaults before the user's
\* additions are made.
build_whitelist_deny_before_allow(defaults, user_config) ==
  IF user_config = None
  THEN <<SetOf(defaults.files), defaults.patterns>>
  ELSE LET u == user_config[1]
       IN  IF u.mode = "replace"
           THEN <<LowerSet(u.allow), u.ignore_patterns>>
           ELSE <<(SetOf(defaults.files) \ LowerSet(u.deny))
                    \cup LowerSet(u.allow),
                  defaults.patterns \o u.ignore_patterns>>

\* build_whitelist with the default patterns kept in replace mode.
build_whitelist_replace_keeps_patterns(defaults, user_config) ==
  IF user_config = None
  THEN <<SetOf(defaults.files), defaults.patterns>>
  ELSE LET u == user_config[1]
       IN  IF u.mode = "replace"
           THEN <<LowerSet(u.allow), defaults.patterns \o u.ignore_patterns>>
           ELSE <<(SetOf(defaults.files) \cup LowerSet(u.allow))
                    \ LowerSet(u.deny),
                  defaults.patterns \o u.ignore_patterns>>

\* build_whitelist taking the extend branch only when mode is "extend", and
\* the replace branch for every other mode.
build_whitelist_extend_only_when_named(defaults, user_config) ==
  IF user_config = None
  THEN <<SetOf(defaults.files), defaults.patterns>>
  ELSE LET u == user_config[1]
       IN  IF u.mode # "extend"
           THEN <<LowerSet(u.allow), u.ignore_patterns>>
           ELSE <<(SetOf(defaults.files) \cup LowerSet(u.allow))
                    \ LowerSet(u.deny),
                  defaults.patterns \o u.ignore_patterns>>

\* build_whitelist with the denials taken off in replace mode too.
build_whitelist_replace_applies_deny(defaults, user_config) ==
  IF user_config = None
  THEN <<SetOf(defaults.files), defaults.patterns>>
  ELSE LET u == user_config[1]
       IN  IF u.mode = "replace"
           THEN <<LowerSet(u.allow) \ LowerSet(u.deny), u.ignore_patterns>>
           ELSE <<(SetOf(defaults.files) \cup LowerSet(u.allow))
                    \ LowerSet(u.deny),
                  defaults.patterns \o u.ignore_patterns>>

\* build_whitelist with deny overriding patterns in extend mode: a pattern
\* that matches a denied name is dropped.
build_whitelist_deny_overrides_patterns(defaults, user_config) ==
  IF user_config = None
  THEN <<SetOf(defaults.files), defaults.patterns>>
  ELSE LET u == user_config[1]
           kept(p) == \A i \in DOMAIN u.deny : ~fnmatch(lower(u.deny[i]), lower(p))
       IN  IF u.mode = "replace"
           THEN <<LowerSet(u.allow), u.ignore_patterns>>
           ELSE <<(SetOf(defaults.files) \cup LowerSet(u.allow))
                    \ LowerSet(u.deny),
                  SelectSeq(defaults.patterns \o u.ignore_patterns, kept)>>

\* build_whitelist: the pair (allowed_files_set, patterns_list).
build_whitelist(defaults, user_config) ==
  IF user_config = None
  THEN <<SetOf(defaults.files), defaults.patterns>>
  ELSE LET u == user_config[1]
       IN  IF u.mode = "replace"
           THEN <<LowerSet(u.allow), u.ignore_patterns>>
           ELSE <<(SetOf(defaults.files) \cup LowerSet(u.allow))
                    \ LowerSet(u.deny),
                  defaults.patterns \o u.ignore_patterns>>

\* The allowed_directories line with [] where there is no user policy.
main_allowed_directories_empty_list(user_config) ==
  IF user_config = None THEN Some(<<>>) ELSE user_config[1].allowed_directories

\* allowed_directories = user_config.allowed_directories if user_config else None
main_allowed_directories(user_config) ==
  IF user_config = None THEN None ELSE user_config[1].allowed_directories

(***************************************************************************)
(* Scanner                                                                 *)
(***************************************************************************)

\* matches_pattern: the loop over patterns from position k, first match wins.
RECURSIVE matches_pattern_from(_, _, _)
matches_pattern_from(filename, patterns, k) ==
  IF k > Len(patterns) THEN FALSE
  ELSE IF fnmatch(lower(filename), lower(patterns[k])) THEN TRUE
  ELSE matches_pattern_from(filename, patterns, k + 1)

matches_pattern(filename, patterns) == matches_pattern_from(filename, patterns, 1)

always_allowed_dirs == {<<".", "g", "i", "t">>, <<".", "s", "v", "n">>, <<".", "h", "g">>}

\* entry_violations with the file name compared as spelled, not lower-cased.
entry_violations_name_as_spelled(entry, allowed_files, patterns, allowed_directories) ==
  LET name == entry.name
      name_lower == lower(name)
  IN  IF entry.is_dir
      THEN IF name_lower \in always_allowed_dirs THEN <<>>
           ELSE IF allowed_directories # None
                   /\ name_lower \notin LowerSet(allowed_directories[1])
                THEN <<Violation(name \o <<"/">>, DIRECTORY_NOT_ALLOWED)>>
                ELSE <<>>
      ELSE IF name \in allowed_files THEN <<>>
           ELSE IF matches_pattern(name, patterns) THEN <<>>
           ELSE <<Violation(name, FILE_NOT_IN_WHITELIST)>>

\* entry_violations with the VCS directory names compared as spelled.
entry_violations_vcs_as_spelled(entry, allowed_files, patterns, allowed_directories) ==
  LET name == entry.name
      name_lower == lower(name)
  IN  IF entry.is_dir
      THEN IF name \in always_allowed_dirs THEN <<>>
           ELSE IF allowed_directories # None
                   /\ name_lower \notin LowerSet(allowed_directories[1])
                THEN <<Violation(name \o <<"/">>, DIRECTORY_NOT_ALLOWED)>>
                ELSE <<>>
      ELSE IF name_lower \in allowed_files THEN <<>>
           ELSE IF matches_pattern(name, patterns) THEN <<>>
           ELSE <<Violation(name, FILE_NOT_IN_WHITELIST)>>

\* entry_violations with the whitelist consulted before the kind of entry.
entry_violations_whitelist_first(entry, allowed_files, patterns, allowed_directories) ==
  LET name == entry.name
      name_lower == lower(name)
  IN  IF name_lower \in allowed_files THEN <<>>
      ELSE IF matches_pattern(name, patterns) THEN <<>>
      ELSE IF entry.is_dir
      THEN IF name_lower \in always_allowed_dirs THEN <<>>
           ELSE IF allowed_directories # None
                   /\ name_lower \notin LowerSet(allowed_directories[1])
                THEN <<Violation(name \o <<"/">>, DIRECTORY_NOT_ALLOWED)>>
                ELSE <<>>
      ELSE <<Violation(name, FILE_NOT_IN_WHITELIST)>>

\* entry_violations with allowed_directories compared as spelled.
entry_violations_dirs_as_spelled(entry, allowed_files, patterns, allowed_directories) ==
  LET name == entry.name
      name_lower == lower(name)
  IN  IF entry.is_dir
      THEN IF name_lower \in always_allowed_dirs THEN <<>>
           ELSE IF allowed_directories # None
                   /\ name_lower \notin SetOf(allowed_directories[1])
                THEN <<Violation(name \o <<"/">>, DIRECTORY_NOT_ALLOWED)>>
                ELSE <<>>
      ELSE IF name_lower \in allowed_files THEN <<>>
           ELSE IF matches_pattern(name, patterns) THEN <<>>
           ELSE <<Violation(name, FILE_NOT_IN_WHITELIST)>>

\* The loop body with the system-directory names exempt whatever the entry is.
entry_violations_vcs_any_kind(entry, allowed_files, patterns, allowed_directories) ==
  LET name == entry.name
      name_lower == lower(name)
  IN  IF name_lower \in always_allowed_dirs THEN <<>>
      ELSE IF entry.is_dir
      THEN IF allowed_directories # None
              /\ name_lower \notin LowerSet(allowed_directories[1])
           THEN <<Violation(name \o <<"/">>, DIRECTORY_NOT_ALLOWED)>>
           ELSE <<>>
      ELSE IF name_lower \in allowed_files THEN <<>>
           ELSE IF matches_pattern(name, patterns) THEN <<>>
           ELSE <<Violation(name, FILE_NOT_IN_WHITELIST)>>

\* What one pass of the loop body of find_violations appends for an entry.
entry_violations(entry, allowed_files, patterns, allowed_directories) ==
  LET name == entry.name
      name_lower == lower(name)
  IN  IF entry.is_dir
      THEN IF name_lower \in always_allowed_dirs THEN <<>>
           ELSE IF allowed_directories # None
                   /\ name_lower \notin LowerSet(allowed_directories[1])
                THEN <<Violation(name \o <<"/">>, DIRECTORY_NOT_ALLOWED)>>
                ELSE <<>>
      ELSE IF name_lower \in allowed_files THEN <<>>
           ELSE IF matches_pattern(name, patterns) THEN <<>>
           ELSE <<Violation(name, FILE_NOT_IN_WHITELIST)>>

\* The for loop over repo_root.iterdir(), listing being the order it yields.
RECURSIVE scan_entries(_, _, _, _)
scan_entries(listing, allowed_files, patterns, allowed_directories) ==
  IF listing = <<>> THEN <<>>
  ELSE entry_violations(Head(listing), allowed_files, patterns,
                        allowed_directories)
       \o scan_entries(Tail(listing), allowed_files, patterns,
                       allowed_directories)

\* key=lambda v: v.filename.lower()
sort_key(v) == lower(v.filename)

\* list.sort is stable: an element goes after every element whose key is not
\* greater than its own.
RECURSIVE insert_sorted(_, _)
insert_sorted(v, sorted) ==
  IF sorted = <<>> THEN <<v>>
  ELSE IF StrLess(sort_key(v), sort_key(Head(sorted))) THEN <<v>> \o sorted
  ELSE <<Head(sorted)>> \o insert_sorted(v, Tail(sorted))

RECURSIVE sort_violations(_)
sort_violations(vs) ==
  IF vs = <<>> THEN <<>>
  ELSE insert_sorted(vs[Len(vs)], sort_violations(SubSeq(vs, 1, Len(vs) - 1)))

find_violations(listing, allowed_files, patterns, allowed_directories) ==
  sort_violations(scan_entries(listing, allowed_files, patterns,
                               allowed_directories))

(***************************************************************************)
(* configure.py: the functions main() calls                               *)
(***************************************************************************)

\* UserConfig(): the policy main() starts from when none was loaded.
UserConfig == Config("extend", <<>>, <<>>, None, <<>>)

\* build_whitelist of configure.py.
configure_build_whitelist(defaults, user_config) ==
  IF user_config = None
  THEN <<SetOf(defaults.files), defaults.patterns>>
  ELSE LET u == user_config[1]
       IN  IF u.mode = "replace"
           THEN <<LowerSet(u.allow), u.ignore_patterns>>
           ELSE <<(SetOf(defaults.files) \cup LowerSet(u.allow))
                    \ LowerSet(u.deny),
                  defaults.patterns \o u.ignore_patterns>>

\* The for loop of find_files_not_in_whitelist with the names of the version
\* control directories skipped whatever the entry is.
RECURSIVE files_not_listed_vcs_any_kind(_, _, _)
files_not_listed_vcs_any_kind(listing, allowed_files, patterns) ==
  IF listing = <<>> THEN <<>>
  ELSE LET name == Head(listing).name
           name_lower == lower(name)
       IN  (IF Head(listing).is_dir \/ name_lower \in always_allowed_dirs THEN <<>>
            ELSE IF name_lower \in allowed_files THEN <<>>
            ELSE IF matches_pattern(name, patterns) THEN <<>>
            ELSE <<name>>)
           \o files_not_listed_vcs_any_kind(Tail(listing), allowed_files, patterns)

\* The for loop of find_files_not_in_whitelist: a directory is skipped, a
\* file is kept unless its lower-cased name is allowed or a pattern matches.
RECURSIVE files_not_listed(_, _, _)
files_not_listed(listing, allowed_files, patterns) ==
  IF listing = <<>> THEN <<>>
  ELSE LET name == Head(listing).name
           name_lower == lower(name)
       IN  (IF Head(listing).is_dir THEN <<>>
            ELSE IF name_lower \in allowed_files THEN <<>>
            ELSE IF matches_pattern(name, patterns) THEN <<>>
            ELSE <<name>>)
           \o files_not_listed(Tail(listing), allowed_files, patterns)

\* not_in_whitelist.sort(key=str.lower): stable, as sort_violations.
RECURSIVE insert_name(_, _)
insert_name(name, sorted) ==
  IF sorted = <<>> THEN <<name>>
  ELSE IF StrLess(lower(name), lower(Head(sorted))) THEN <<name>> \o sorted
  ELSE <<Head(sorted)>> \o insert_name(name, Tail(sorted))

RECURSIVE sort_names(_)
sort_names(names) ==
  IF names = <<>> THEN <<>>
  ELSE insert_name(names[Len(names)],
                   sort_names(SubSeq(names, 1, Len(names) - 1)))

find_files_not_in_whitelist(listing, allowed_files, patterns) ==
  sort_names(files_not_listed(listing, allowed_files, patterns))

\* The loop of main() over selected: a name is appended to allow unless its
\* lower-cased form is already there or was appended before it.
RECURSIVE add_selected(_, _)
add_selected(allow, names) ==
  IF names = <<>> THEN allow
  ELSE IF lower(Head(names)) \in LowerSet(allow)
       THEN add_selected(allow, Tail(names))
       ELSE add_selected(Append(allow, Head(names)), Tail(names))

\* save_user_config with allowed_directories written like the other lists,
\* when it is not empty.
save_user_config_dirs_when_not_empty(config) ==
  MappingDoc([mode |-> Some(config.mode),
              allow |-> IF config.allow # <<>> THEN Some(config.allow) ELSE None,
              deny |-> IF config.deny # <<>> THEN Some(config.deny) ELSE None,
              allowed_directories |->
                IF config.allowed_directories \in {None, Some(<<>>)}
                THEN None ELSE config.allowed_directories,
              ignore_patterns |->
                IF config.ignore_patterns # <<>>
                THEN Some(config.ignore_patterns) ELSE None])

\* save_user_config: the document written to .root-artifacts.yaml.  mode is
\* always written, allowed_directories when it is not None, the other lists
\* when they are not empty.
save_user_config(config) ==
  MappingDoc([mode |-> Some(config.mode),
              allow |-> IF config.allow # <<>> THEN Some(config.allow) ELSE None,
              deny |-> IF config.deny # <<>> THEN Some(config.deny) ELSE None,
              allowed_directories |-> config.allowed_directories,
              ignore_patterns |->
                IF config.ignore_patterns # <<>>
                THEN Some(config.ignore_patterns) ELSE None])

(***************************************************************************)
(* Triage classifier                                                       *)
(***************************************************************************)

TRASH_PATTERNS ==
  <<<<"*", ".", "t", "m", "p">>,
    <<"*", ".", "t", "e", "m", "p">>,
    <<"*", ".", "b", "a", "k">>,
    <<"*", ".", "s", "w", "p">>,
    <<"*", ".", "s", "w", "o">>,
    <<"*", ".", "o", "r", "i", "g">>,
    <<"*", ".", "b", "a", "c", "k", "u", "p">>,
    <<"*", "~">>,
    <<"*", ".", "o", "l", "d">>,
    <<"*", ".", "l", "o", "g">>,
    <<"*", ".", "l", "o", "g", "s">>,
    <<"n", "p", "m", "-", "d", "e", "b", "u", "g", ".", "l", "o", "g", "*">>,
    <<"y", "a", "r", "n", "-", "d", "e", "b", "u", "g", ".", "l", "o", "g", "*">>,
    <<"y", "a", "r", "n", "-", "e", "r", "r", "o", "r", ".", "l", "o", "g", "*">>,
    <<"l", "e", "r", "n", "a", "-", "d", "e", "b", "u", "g", ".", "l", "o", "g", "*">>,
    <<"d", "e", "b", "u", "g", ".", "l", "o", "g">>,
    <<"*", ".", "c", "a", "c", "h", "e">>,
    <<"*", ".", "p", "y", "c">>,
    <<"*", ".", "p", "y", "o">>,
    <<"*", ".", "p", "y", "d">>,
    <<"_", "_", "p", "y", "c", "a", "c", "h", "e", "_", "_">>,
    <<"*", ".", "c", "l", "a", "s", "s">>,
    <<"*", ".", "o">>,
    <<"*", ".", "o", "b", "j">>,
    <<"*", ".", "e", "x", "e">>,
    <<"*", ".", "d", "l", "l">>,
    <<"*", ".", "s", "o">>,
    <<".", "D", "S", "_", "S", "t", "o", "r", "e">>,
    <<"T", "h", "u", "m", "b", "s", ".", "d", "b">>,
    <<"d", "e", "s", "k", "t", "o", "p", ".", "i", "n", "i">>,
    <<"*", ".", "l", "n", "k">>,
    <<"*", ".", "s", "u", "b", "l", "i", "m", "e", "-", "w", "o", "r", "k", "s", "p", "a", "c", "e">>,
    <<".", "i", "d", "e", "a">>,
    <<"*", ".", "i", "m", "l">>,
    <<"*", ".", "c", "a", "l">>,
    <<"*", ".", "b", "k", "p">>,
    <<"*", ".", "g", "h", "o">>,
    <<"*", ".", "i", "s", "o">>,
    <<"*", ".", "m", "i", "n", ".", "j", "s">>,
    <<"*", ".", "m", "i", "n", ".", "c", "s", "s">>,
    <<"*", ".", "m", "a", "p">>,
    <<"c", "o", "v", "e", "r", "a", "g", "e">>,
    <<".", "n", "y", "c", "_", "o", "u", "t", "p", "u", "t">>,
    <<"j", "u", "n", "i", "t", ".", "x", "m", "l">>,
    <<"*", ".", "j", "s", "o", "n", ".", "b", "a", "k">>,
    <<"*", ".", "j", "s", "o", "n", ".", "t", "m", "p">>,
    <<"*", ".", "j", "s", "o", "n", ".", "o", "l", "d">>>>

CONFIG_PATTERNS ==
  <<<<"p", "a", "c", "k", "a", "g", "e", ".", "j", "s", "o", "n">>,
    <<"t", "s", "c", "o", "n", "f", "i", "g", ".", "j", "s", "o", "n">>,
    <<"j", "s", "c", "o", "n", "f", "i", "g", ".", "j", "s", "o", "n">>,
    <<"*", ".", "c", "o", "n", "f", "i", "g", ".", "j", "s">>,
    <<"*", ".", "c", "o", "n", "f", "i", "g", ".", "t", "s">>,
    <<"*", ".", "c", "o", "n", "f", "i", "g", ".", "m", "j", "s">>,
    <<"*", ".", "y", "a", "m", "l">>,
    <<"*", ".", "y", "m", "l">>,
    <<"*", ".", "t", "o", "m", "l">>,
    <<"M", "a", "k", "e", "f", "i", "l", "e">>,
    <<"D", "o", "c", "k", "e", "r", "f", "i", "l", "e", "*">>,
    <<"d", "o", "c", "k", "e", "r", "-", "c", "o", "m", "p", "o", "s", "e", "*">>,
    <<"*", ".", "m", "d">>,
    <<"L", "I", "C", "E", "N", "S", "E", "*">>,
    <<"C", "H", "A", "N", "G", "E", "L", "O", "G", "*">>,
    <<"*", ".", "e", "n", "v">>,
    <<"*", ".", "e", "n", "v", ".", "*">>,
    <<"*", ".", "s", "h">>,
    <<"*", ".", "p", "s", "1">>,
    <<"*", ".", "b", "a", "t">>,
    <<"*", ".", "c", "m", "d">>>>

\* One of the two for loops of classify_file, from position k of the table.
RECURSIVE matches_table_from(_, _, _)
matches_table_from(name_lower, table, k) ==
  IF k > Len(table) THEN FALSE
  ELSE IF fnmatch(name_lower, lower(table[k])) THEN TRUE
  ELSE matches_table_from(name_lower, table, k + 1)

\* classify_file with the config table consulted before the trash table.
classify_file_config_first(filename) ==
  LET name_lower == lower(filename)
  IN  IF matches_table_from(name_lower, CONFIG_PATTERNS, 1) THEN "config"
      ELSE IF matches_table_from(name_lower, TRASH_PATTERNS, 1) THEN "trash"
      ELSE "unknown"

classify_file(filename) ==
  LET name_lower == lower(filename)
  IN  IF matches_table_from(name_lower, TRASH_PATTERNS, 1) THEN "trash"
      ELSE IF matches_table_from(name_lower, CONFIG_PATTERNS, 1) THEN "config"
      ELSE "unknown"

(***************************************************************************)
(* The inputs main() reads: the two policy documents and the root listing  *)
(***************************************************************************)

\* The most entries the repository root holds.
MaxEntries == 2

n_README_md == <<"R", "E", "A", "D", "M", "E", ".", "m", "d">>
n_readme_md == <<"r", "e", "a", "d", "m", "e", ".", "m", "d">>
n_Makefile == <<"M", "a", "k", "e", "f", "i", "l", "e">>
n_src_py == <<"s", "r", "c", ".", "p", "y">>
n_GIT == <<".", "G", "I", "T">>
n_src == <<"s", "r", "c">>

RootNames == {n_README_md, n_readme_md, n_src_py, n_GIT, n_src}

\* entry.name and entry.is_dir() of one entry of repo_root.iterdir()
Entry(name, is_dir) == [name |-> name, is_dir |-> is_dir]

\* The roots a file system can hold: a name is a file or a directory, not both.
RootListings ==
  {es \in SUBSET {Entry(n, d) : n \in RootNames, d \in BOOLEAN} :
     /\ Cardinality(es) <= MaxEntries
     /\ \A e1, e2 \in es : e1.name = e2.name => e1 = e2}

\* The orders in which iterdir() can yield the entries es.
IterOrders(es) ==
  {o \in [1..Cardinality(es) -> es] : \A e \in es : \E i \in DOMAIN o : o[i] = e}

\* default-whitelist.yaml: the mappings with and without each key.
DefaultFilesValues == {None, Some(<<<<"R", "e", "a", "d", "m", "e", ".", "M", "D">>, <<"s", "r", "c">>>>)}

DefaultPatternsValues == {None, Some(<<<<"*", ".", "M", "D">>, <<"[", "R", "-", "S", "]", "*">>>>)}

DefaultDocs ==
  {AbsentDoc, MalformedDoc, NotMappingDoc}
  \cup {MappingDoc([files |-> f, patterns |-> p]) :
          f \in DefaultFilesValues, p \in DefaultPatternsValues}

\* .root-artifacts.yaml: the mappings with and without each key.
ModeValues == {None, Some("replace"), Some("replac")}

AllowValues == {None, Some(<<<<"S", "R", "C", ".", "p", "y">>, <<".", "g", "i", "t">>>>)}

DenyValues == {None, Some(<<<<"R", "E", "A", "D", "M", "E", ".", "m", "d">>, <<"s", "r", "c", ".", "P", "Y">>>>)}

AllowedDirectoriesValues == {None, Some(<<>>), Some(<<<<"S", "R", "C">>, <<"r", "e", "a", "d", "m", "e", ".", "m", "d">>>>)}

IgnorePatternsValues == {None, Some(<<<<"*", ".", "p", "y">>>>)}

UserDocs ==
  {AbsentDoc, MalformedDoc, NotMappingDoc}
  \cup {MappingDoc([mode |-> m, allow |-> a, deny |-> d,
                    allowed_directories |-> ad, ignore_patterns |-> ip]) :
          m \in ModeValues, a \in AllowValues, d \in DenyValues,
          ad \in AllowedDirectoriesValues, ip \in IgnorePatternsValues}

\* A document main() has not opened yet.
UnreadDoc == [kind |-> "unread", data |-> <<>>]

\* The filenames find_violations can put in a Violation: an entry's name, or
\* its name and "/" for a directory.
ReportableNames == RootNames \cup {n \o <<"/">> : n \in RootNames}

\* classify_file tabulated over the names S; classify_file depends on nothing
\* but the name, so main() may read its answer from the table.
RECURSIVE Tabulate(_)
Tabulate(S) ==
  IF S = {} THEN <<>>
  ELSE LET n == CHOOSE m \in S : TRUE
       IN  (n :> classify_file(n)) @@ Tabulate(S \ {n})

Dispositions == Tabulate(ReportableNames)

\* The unknown list taken as whatever is not trash.
RECURSIVE with_disposition_unknown_is_not_trash(_, _)
with_disposition_unknown_is_not_trash(vs, disposition) ==
  IF vs = <<>> THEN <<>>
  ELSE (IF \/ Dispositions[Head(vs).filename] = disposition
           \/ disposition = "unknown" /\ Dispositions[Head(vs).filename] # "trash"
        THEN <<Head(vs)>> ELSE <<>>)
       \o with_disposition_unknown_is_not_trash(Tail(vs), disposition)

\* The lists of the report with a directory classified by its bare name.
RECURSIVE with_disposition_of_bare_name(_, _)
with_disposition_of_bare_name(vs, disposition) ==
  IF vs = <<>> THEN <<>>
  ELSE LET f == Head(vs).filename
           bare == IF f[Len(f)] = "/" THEN SubSeq(f, 1, Len(f) - 1) ELSE f
       IN  (IF Dispositions[bare] = disposition THEN <<Head(vs)>> ELSE <<>>)
           \o with_disposition_of_bare_name(Tail(vs), disposition)

\* [v for v in violations if classify_file(v.filename) == disposition]
RECURSIVE with_disposition(_, _)
with_disposition(vs, disposition) ==
  IF vs = <<>> THEN <<>>
  ELSE (IF Dispositions[Head(vs).filename] = disposition
        THEN <<Head(vs)>> ELSE <<>>)
       \o with_disposition(Tail(vs), disposition)

(***************************************************************************)
(* main(): one action per step, in program order                           *)
(***************************************************************************)

VARIABLES
  pc,                   \* the step main() is about to run
  default_doc,          \* default-whitelist.yaml as read
  user_doc,             \* .root-artifacts.yaml as read
  root_entries,         \* the entries of the repository root as listed
  defaults,             \* DefaultConfig
  user_config,          \* Optional[Config]
  allowed_files,        \* set of lower-cased names
  patterns,             \* list of glob patterns
  allowed_directories,  \* Optional[list of names]
  violations,           \* list of Violation, as find_violations returned it
  trash_files,          \* the three lists of the report
  config_files,
  unknown_files,
  exit_code,            \* the process exit status, NoExit while running
  classify_arg,         \* the argument of a call of classify_file on its own
  disposition           \* what that call returned, NotClassified before it

\* auto_commit.py: the runs of the hook on one workspace
VARIABLES
  hook_pc,              \* per run: the step the run is about to take
  hook_exit,            \* per run: its exit status, NoExit while running
  now,                  \* datetime.now(), in minutes
  state_file,           \* last_commit as auto-commit-state.json records it
  git_log,              \* the times of the commits in the workspace
  dirty                 \* the workspace has changes (git status --porcelain)

\* setup-mcp.py: one call of save_mcp_config and the three files it touches
VARIABLES
  save_pc,              \* the step save_mcp_config is about to take
  config_file,          \* content of the config file, None when missing
  backup_file,          \* content of the .backup file
  temp_file,            \* content of the .tmp file
  config_before,        \* what the config file held when the call began
  new_config,           \* the config argument
  unlink_failed         \* temp_path.unlink() raised the OSError that is ignored

\* configure.py: main() of the configurator, beside the variables it shares
\* by name with check.py
VARIABLES
  root_listing,         \* the entries in the order repo_root.iterdir() yields
  not_in_whitelist,     \* list of names find_files_not_in_whitelist returned
  selected,             \* list of names chosen to be added
  non_interactive,      \* args.non_interactive
  saved_doc             \* the document save_user_config wrote, None before

\* add_hook_to_pre_commit_config, in its three copies
VARIABLES
  pre_commit_config,    \* .pre-commit-config.yaml: None, or its list of repos
  pre_commit_before,    \* what it held before the first call
  hook_copy,            \* the copy of the function that is called
  add_calls             \* the calls made so far

\* setup-mcp.py: install_mcp_servers
VARIABLES
  mcp_pc,               \* the step install_mcp_servers is about to take
  check_only,           \* its arguments
  force,
  mcp_config,           \* the config it holds in memory
  mcp_result,           \* what it returned, NoExit before
  backup_before         \* what the .backup file held when the call began

vars ==
  <<pc, default_doc, user_doc, root_entries, defaults, user_config,
    allowed_files, patterns, allowed_directories, violations, trash_files,
    config_files, unknown_files, exit_code, classify_arg, disposition,
    hook_pc, hook_exit, now, state_file, git_log, dirty,
    save_pc, config_file, backup_file, temp_file, config_before, new_config,
    unlink_failed,
    root_listing, not_in_whitelist, selected, non_interactive, saved_doc,
    pre_commit_config, pre_commit_before, hook_copy, add_calls,
    mcp_pc, check_only, force, mcp_config, mcp_result, backup_before>>

\* The variables of the configurator's own.
configure_vars ==
  <<root_listing, not_in_whitelist, selected, non_interactive, saved_doc>>

\* The variables of add_hook_to_pre_commit_config.
pre_commit_vars == <<pre_commit_config, pre_commit_before, hook_copy, add_calls>>

\* The variables of install_mcp_servers.
mcp_vars ==
  <<mcp_pc, check_only, force, mcp_config, mcp_result, backup_before>>

\* The variables of the auto-commit hook.
hook_vars == <<hook_pc, hook_exit, now, state_file, git_log, dirty>>

\* The variables of save_mcp_config.
save_vars ==
  <<save_pc, config_file, backup_file, temp_file, config_before, new_config,
    unlink_failed>>

\* The variables of a call of classify_file on its own.
classify_vars == <<classify_arg, disposition>>

\* The variables of main().
main_vars ==
  <<pc, default_doc, user_doc, root_entries, defaults, user_config,
    allowed_files, patterns, allowed_directories, violations, trash_files,
    config_files, unknown_files, exit_code>>

NoExit == -1

NotClassified == "none"

\* The runs of the hook that may overlap.
Hooks == {"first", "second"}

\* No run of the hook has started.
InitHooks ==
  /\ hook_pc = [h \in Hooks |-> "idle"]
  /\ hook_exit = [h \in Hooks |-> NoExit]
  /\ now = 0
  /\ state_file = None
  /\ git_log = <<>>
  /\ dirty = FALSE

\* save_mcp_config has not been called.
SaveNotCalled ==
  /\ save_pc = "not_called"
  /\ config_file = None
  /\ backup_file = None
  /\ temp_file = None
  /\ config_before = None
  /\ new_config = None
  /\ unlink_failed = FALSE

\* The configurator has not run.
ConfigureNotRun ==
  /\ root_listing = <<>>
  /\ not_in_whitelist = <<>>
  /\ selected = <<>>
  /\ non_interactive = FALSE
  /\ saved_doc = None

\* add_hook_to_pre_commit_config has not been called.
PreCommitNotCalled ==
  /\ pre_commit_config = None
  /\ pre_commit_before = None
  /\ hook_copy = "none"
  /\ add_calls = 0

\* install_mcp_servers has not been called.
McpNotCalled ==
  /\ mcp_pc = "not_called"
  /\ check_only = FALSE
  /\ force = FALSE
  /\ mcp_config = None
  /\ mcp_result = NoExit
  /\ backup_before = None

\* Nothing but the program under study has run.
OthersNotRun == ConfigureNotRun /\ PreCommitNotCalled /\ McpNotCalled

\* main() before its first step.
InitMain ==
  /\ pc = "get_repo_root"
  /\ default_doc = UnreadDoc
  /\ user_doc = UnreadDoc
  /\ root_entries = {}
  /\ defaults = DefaultConfig(<<>>, <<>>)
  /\ user_config = None
  /\ allowed_files = {}
  /\ patterns = <<>>
  /\ allowed_directories = None
  /\ violations = <<>>
  /\ trash_files = <<>>
  /\ config_files = <<>>
  /\ unknown_files = <<>>
  /\ exit_code = NoExit

Init ==
  /\ InitMain
  /\ classify_arg = <<>>
  /\ disposition = NotClassified
  /\ InitHooks
  /\ SaveNotCalled
  /\ OthersNotRun

\* The process ends with the given status.
Exit(code) ==
  /\ pc' = "exit"
  /\ exit_code' = code

\* repo_root = get_repo_root(): git answers, or fails and main returns 2.
GetRepoRoot ==
  /\ pc = "get_repo_root"
  /\ \/ pc' = "load_defaults" /\ exit_code' = exit_code
     \/ Exit(2)
  /\ UNCHANGED <<default_doc, user_doc, root_entries, defaults, user_config,
                 allowed_files, patterns, allowed_directories, violations,
                 trash_files, config_files, unknown_files>>
  /\ UNCHANGED <<classify_vars, hook_vars, save_vars,
                 configure_vars, pre_commit_vars, mcp_vars>>

\* defaults = load_default_whitelist(script_dir).  yaml.YAMLError and the
\* AttributeError of data.get on a non-mapping are not caught: the
\* interpreter prints the traceback and exits with status 1.
LoadDefaultWhitelist ==
  /\ pc = "load_defaults"
  /\ \E doc \in DefaultDocs :
       /\ default_doc' = doc
       /\ IF doc.kind \in {"malformed", "not_mapping"}
          THEN Exit(1) /\ defaults' = defaults
          ELSE /\ defaults' = load_default_whitelist(doc)
               /\ pc' = "load_user"
               /\ exit_code' = exit_code
  /\ UNCHANGED <<user_doc, root_entries, user_config, allowed_files, patterns,
                 allowed_directories, violations, trash_files, config_files,
                 unknown_files>>
  /\ UNCHANGED <<classify_vars, hook_vars, save_vars,
                 configure_vars, pre_commit_vars, mcp_vars>>

\* user_config = load_user_config(repo_root).  yaml.YAMLError is caught and
\* answered with sys.exit(2); a non-mapping raises AttributeError outside the
\* try block.
LoadUserConfig ==
  /\ pc = "load_user"
  /\ \E doc \in UserDocs :
       /\ user_doc' = doc
       /\ IF doc.kind = "malformed" THEN Exit(2) /\ user_config' = user_config
          ELSE IF doc.kind = "not_mapping"
               THEN Exit(1) /\ user_config' = user_config
          ELSE /\ user_config' = load_user_config(doc)
               /\ pc' = "build_whitelist"
               /\ exit_code' = exit_code
  /\ UNCHANGED <<default_doc, root_entries, defaults, allowed_files, patterns,
                 allowed_directories, violations, trash_files, config_files,
                 unknown_files>>
  /\ UNCHANGED <<classify_vars, hook_vars, save_vars,
                 configure_vars, pre_commit_vars, mcp_vars>>

\* build_whitelist extending defaults.patterns in place:
\* patterns = defaults.patterns; patterns.extend(user_config.ignore_patterns)
BuildWhitelist_extends_default_patterns ==
  /\ pc = "build_whitelist"
  /\ allowed_files' = build_whitelist(defaults, user_config)[1]
  /\ patterns' = build_whitelist(defaults, user_config)[2]
  /\ defaults' = [defaults EXCEPT !.patterns = build_whitelist(defaults, user_config)[2]]
  /\ allowed_directories' = main_allowed_directories(user_config)
  /\ pc' = "find_violations"
  /\ UNCHANGED <<default_doc, user_doc, root_entries, user_config,
                 violations, trash_files, config_files, unknown_files,
                 exit_code>>
  /\ UNCHANGED <<classify_vars, hook_vars, save_vars,
                 configure_vars, pre_commit_vars, mcp_vars>>

\* allowed_files, patterns = build_whitelist(defaults, user_config) and the
\* allowed_directories line after it.
BuildWhitelist ==
  /\ pc = "build_whitelist"
  /\ allowed_files' = build_whitelist(defaults, user_config)[1]
  /\ patterns' = build_whitelist(defaults, user_config)[2]
  /\ allowed_directories' = main_allowed_directories(user_config)
  /\ pc' = "find_violations"
  /\ UNCHANGED <<default_doc, user_doc, root_entries, defaults, user_config,
                 violations, trash_files, config_files, unknown_files,
                 exit_code>>
  /\ UNCHANGED <<classify_vars, hook_vars, save_vars,
                 configure_vars, pre_commit_vars, mcp_vars>>

\* violations = find_violations(...): the root is listed in whatever order
\* the file system yields.
FindViolations ==
  /\ pc = "find_violations"
  /\ \E es \in RootListings : \E listing \in IterOrders(es) :
       /\ root_entries' = es
       /\ violations' = find_violations(listing, allowed_files, patterns,
                                        allowed_directories)
  /\ pc' = "report"
  /\ UNCHANGED <<default_doc, user_doc, defaults, user_config, allowed_files,
                 patterns, allowed_directories, trash_files, config_files,
                 unknown_files, exit_code>>
  /\ UNCHANGED <<classify_vars, hook_vars, save_vars,
                 configure_vars, pre_commit_vars, mcp_vars>>

\* if not violations: return 0; else the report with its three lists, return 1
Report ==
  /\ pc = "report"
  /\ IF violations = <<>>
     THEN /\ Exit(0)
          /\ UNCHANGED <<trash_files, config_files, unknown_files>>
     ELSE /\ trash_files' = with_disposition(violations, "trash")
          /\ config_files' = with_disposition(violations, "config")
          /\ unknown_files' = with_disposition(violations, "unknown")
          /\ Exit(1)
  /\ UNCHANGED <<default_doc, user_doc, root_entries, defaults, user_config,
                 allowed_files, patterns, allowed_directories, violations>>
  /\ UNCHANGED <<classify_vars, hook_vars, save_vars,
                 configure_vars, pre_commit_vars, mcp_vars>>

Next ==
  \/ GetRepoRoot
  \/ LoadDefaultWhitelist
  \/ LoadUserConfig
  \/ BuildWhitelist
  \/ FindViolations
  \/ Report

Spec == Init /\ [][Next]_vars

(***************************************************************************)
(* classify_file called on its own, on a name drawn from ClassifyNames     *)
(***************************************************************************)

\* The longest name made of the characters of ClassifyAlphabet.
MaxNameLen == 3

ClassifyAlphabet == {".", "o", "~", "m", "D", "a"}

RECURSIVE NamesOfLen(_)
NamesOfLen(k) ==
  IF k = 0 THEN {<<>>}
  ELSE {<<c>> \o n : c \in ClassifyAlphabet, n \in NamesOfLen(k - 1)}

n_package_json_bak == <<"p", "a", "c", "k", "a", "g", "e", ".", "j", "s", "o", "n", ".", "b", "a", "k">>
n_npm_debug_log_1 == <<"n", "p", "m", "-", "d", "e", "b", "u", "g", ".", "l", "o", "g", ".", "1">>
n_docker_compose_override_yml == <<"d", "o", "c", "k", "e", "r", "-", "c", "o", "m", "p", "o", "s", "e", ".", "o", "v", "e", "r", "r", "i", "d", "e", ".", "y", "m", "l">>
n_setup_v2_FINAL_py == <<"s", "e", "t", "u", "p", "_", "v", "2", "_", "F", "I", "N", "A", "L", ".", "p", "y">>
n_Dockerfile_bak == <<"D", "o", "c", "k", "e", "r", "f", "i", "l", "e", ".", "b", "a", "k">>
n_docker_compose_log == <<"d", "o", "c", "k", "e", "r", "-", "c", "o", "m", "p", "o", "s", "e", ".", "l", "o", "g">>
n_Thumbs_db == <<"T", "h", "u", "m", "b", "s", ".", "d", "b">>
n_coverage_dir == <<"c", "o", "v", "e", "r", "a", "g", "e", "/">>

ClassifyNames ==
  UNION {NamesOfLen(k) : k \in 1..MaxNameLen}
  \cup {n_package_json_bak, n_npm_debug_log_1, n_docker_compose_override_yml,
        n_setup_v2_FINAL_py, n_Dockerfile_bak, n_docker_compose_log,
        n_Thumbs_db, n_coverage_dir, n_README_md, n_Makefile}

InitClassify ==
  /\ InitMain
  /\ classify_arg \in ClassifyNames
  /\ disposition = NotClassified
  /\ InitHooks
  /\ SaveNotCalled
  /\ OthersNotRun

\* disposition = classify_file(classify_arg)
ClassifyFile ==
  /\ disposition = NotClassified
  /\ disposition' = classify_file(classify_arg)
  /\ UNCHANGED <<classify_arg, main_vars, hook_vars, save_vars,
                 configure_vars, pre_commit_vars, mcp_vars>>

NextClassify == ClassifyFile

SpecClassify == InitClassify /\ [][NextClassify]_vars

(***************************************************************************)
(* auto_commit.py: runs of the hook on one workspace                       *)
(***************************************************************************)

\* AUTO_COMMIT_INTERVAL as configured, in minutes.
MIN_INTERVAL_MINUTES == 2

\* The last minute the clock reaches.
MaxTime == 3

\* The most commits the workspace history takes.
MaxCommits == 2

\* TimeBasedStateManager.should_commit: no readable last_commit, or at least
\* the interval has passed since it.
should_commit ==
  \/ state_file = None
  \/ now - state_file[1] >= MIN_INTERVAL_MINUTES

\* The run h goes on to the given step.
HookGoto(h, step) ==
  /\ hook_pc' = [hook_pc EXCEPT ![h] = step]
  /\ hook_exit' = hook_exit

\* The run h ends with the given status.
HookExit(h, code) ==
  /\ hook_pc' = [hook_pc EXCEPT ![h] = "exited"]
  /\ hook_exit' = [hook_exit EXCEPT ![h] = code]

\* The IDE starts the script.  The module body runs first: class Config reads
\* AUTO_COMMIT_INTERVAL with int(), outside every try block, so a value that
\* is not an integer ends the process with a traceback and status 1.
HookStart(h) ==
  /\ hook_pc[h] \in {"idle", "exited"}
  /\ \E interval_is_integer \in BOOLEAN :
       IF interval_is_integer
       THEN /\ hook_pc' = [hook_pc EXCEPT ![h] = "main"]
            /\ hook_exit' = [hook_exit EXCEPT ![h] = NoExit]
       ELSE HookExit(h, 1)
  /\ UNCHANGED <<now, state_file, git_log, dirty>>
  /\ UNCHANGED <<main_vars, classify_vars, save_vars,
                 configure_vars, pre_commit_vars, mcp_vars>>

\* main() up to handler.handle(): sys.exit(0) when the workspace is not a git
\* repository; an exception while the components are built (Logger creates
\* the log directory) is caught and followed by sys.exit(0).
HookMain(h) ==
  /\ hook_pc[h] = "main"
  /\ \E is_git_repo, logger_built \in BOOLEAN :
       IF is_git_repo /\ logger_built
       THEN HookGoto(h, "has_changes")
       ELSE HookExit(h, 0)
  /\ UNCHANGED <<now, state_file, git_log, dirty>>
  /\ UNCHANGED <<main_vars, classify_vars, save_vars,
                 configure_vars, pre_commit_vars, mcp_vars>>

\* if not self.repo.has_changes(): return.  has_changes answers False when
\* git cannot be run.
HookHasChanges(h) ==
  /\ hook_pc[h] = "has_changes"
  /\ \E git_runs \in BOOLEAN :
       IF git_runs /\ dirty
       THEN HookGoto(h, "should_commit")
       ELSE HookExit(h, 0)
  /\ UNCHANGED <<now, state_file, git_log, dirty>>
  /\ UNCHANGED <<main_vars, classify_vars, save_vars,
                 configure_vars, pre_commit_vars, mcp_vars>>

\* if not self.state.should_commit(): return
HookShouldCommit(h) ==
  /\ hook_pc[h] = "should_commit"
  /\ IF should_commit THEN HookGoto(h, "generate") ELSE HookExit(h, 0)
  /\ UNCHANGED <<now, state_file, git_log, dirty>>
  /\ UNCHANGED <<main_vars, classify_vars, save_vars,
                 configure_vars, pre_commit_vars, mcp_vars>>

\* get_changes() and generator.generate(): the message comes from the LLM or,
\* on any failure, from _generate_simple; neither raises.
HookGenerate(h) ==
  /\ hook_pc[h] = "generate"
  /\ HookGoto(h, "commit")
  /\ UNCHANGED <<now, state_file, git_log, dirty>>
  /\ UNCHANGED <<main_vars, classify_vars, save_vars,
                 configure_vars, pre_commit_vars, mcp_vars>>

\* The commit step going on to update_state whatever commit() answered.
HookCommit_updates_state_on_failure(h) ==
  /\ hook_pc[h] = "commit"
  /\ \/ /\ dirty
        /\ Len(git_log) < MaxCommits
        /\ git_log' = Append(git_log, now)
        /\ dirty' = FALSE
     \/ UNCHANGED <<git_log, dirty>>
  /\ HookGoto(h, "update_state")
  /\ UNCHANGED <<now, state_file>>
  /\ UNCHANGED <<main_vars, classify_vars, save_vars,
                 configure_vars, pre_commit_vars, mcp_vars>>

\* if self.repo.commit(message): git add and git commit succeed when there is
\* something to commit; commit() answers False when either fails.
HookCommit(h) ==
  /\ hook_pc[h] = "commit"
  /\ \/ /\ dirty
        /\ Len(git_log) < MaxCommits
        /\ git_log' = Append(git_log, now)
        /\ dirty' = FALSE
        /\ HookGoto(h, "update_state")
     \/ /\ HookExit(h, 0)
        /\ UNCHANGED <<git_log, dirty>>
  /\ UNCHANGED <<now, state_file>>
  /\ UNCHANGED <<main_vars, classify_vars, save_vars,
                 configure_vars, pre_commit_vars, mcp_vars>>

\* self.state.update_state(): the state file takes the time of the write; an
\* error of the write leaves main() through its except clause.  Either way
\* the script ends with sys.exit(0).
HookUpdateState(h) ==
  /\ hook_pc[h] = "update_state"
  /\ \/ state_file' = Some(now)
     \/ state_file' = state_file
  /\ HookExit(h, 0)
  /\ UNCHANGED <<now, git_log, dirty>>
  /\ UNCHANGED <<main_vars, classify_vars, save_vars,
                 configure_vars, pre_commit_vars, mcp_vars>>

\* A minute passes.
Tick ==
  /\ now < MaxTime
  /\ now' = now + 1
  /\ UNCHANGED <<hook_pc, hook_exit, state_file, git_log, dirty>>
  /\ UNCHANGED <<main_vars, classify_vars, save_vars,
                 configure_vars, pre_commit_vars, mcp_vars>>

\* A file of the workspace is changed.
Edit ==
  /\ ~dirty
  /\ dirty' = TRUE
  /\ UNCHANGED <<hook_pc, hook_exit, now, state_file, git_log>>
  /\ UNCHANGED <<main_vars, classify_vars, save_vars,
                 configure_vars, pre_commit_vars, mcp_vars>>

InitAutoCommit ==
  /\ InitMain
  /\ classify_arg = <<>>
  /\ disposition = NotClassified
  /\ InitHooks
  /\ SaveNotCalled
  /\ OthersNotRun

NextAutoCommit ==
  \/ \E h \in Hooks : HookStart(h)
  \/ \E h \in Hooks : HookMain(h)
  \/ \E h \in Hooks : HookHasChanges(h)
  \/ \E h \in Hooks : HookShouldCommit(h)
  \/ \E h \in Hooks : HookGenerate(h)
  \/ \E h \in Hooks : HookCommit(h)
  \/ \E h \in Hooks : HookUpdateState(h)
  \/ Tick
  \/ Edit

SpecAutoCommit == InitAutoCommit /\ [][NextAutoCommit]_vars

(***************************************************************************)
(* setup-mcp.py: save_mcp_config                                           *)
(***************************************************************************)

\* Contents of a config file: two JSON documents.
ConfigContents == {"servers_a", "servers_b"}

\* What a file holds after a write that did not finish.
PartialContent == "partial"

\* What a .tmp file left by an earlier call holds.
StaleContent == "stale"

\* The call goes on to the given step.
SaveGoto(step) == save_pc' = step

\* config_path.parent.mkdir(parents=True, exist_ok=True), before the try
\* block: nothing to do when the directory is there, as it is when it holds
\* one of the three files; an error creating it leaves the call at once.
SaveMkdir ==
  /\ save_pc = "mkdir"
  /\ \/ SaveGoto("backup")
     \/ /\ config_file = None /\ backup_file = None /\ temp_file = None
        /\ SaveGoto("raised")
  /\ UNCHANGED <<config_file, backup_file, temp_file, config_before,
                 new_config, unlink_failed>>
  /\ UNCHANGED <<main_vars, classify_vars, hook_vars,
                 configure_vars, pre_commit_vars, mcp_vars>>

\* if config_path.exists(): shutil.copy2(config_path, backup_path), before
\* the try block: a copy that fails leaves the call and may leave a backup
\* that is not whole.
SaveBackup ==
  /\ save_pc = "backup"
  /\ IF config_file = None
     THEN SaveGoto("open_temp") /\ backup_file' = backup_file
     ELSE \/ SaveGoto("open_temp") /\ backup_file' = config_file
          \/ SaveGoto("raised") /\ backup_file' \in {backup_file, Some(PartialContent)}
  /\ UNCHANGED <<config_file, temp_file, config_before, new_config,
                 unlink_failed>>
  /\ UNCHANGED <<main_vars, classify_vars, hook_vars,
                 configure_vars, pre_commit_vars, mcp_vars>>

\* with open(temp_path, "w"): the file is created or truncated; an error goes
\* to the finally block.
SaveOpenTemp ==
  /\ save_pc = "open_temp"
  /\ \/ SaveGoto("write") /\ temp_file' = Some("")
     \/ SaveGoto("finally_raising") /\ temp_file' = temp_file
  /\ UNCHANGED <<config_file, backup_file, config_before, new_config,
                 unlink_failed>>
  /\ UNCHANGED <<main_vars, classify_vars, hook_vars,
                 configure_vars, pre_commit_vars, mcp_vars>>

\* SaveWrite writing the document into the config file itself.
SaveWrite_into_config_file ==
  /\ save_pc = "write"
  /\ \/ SaveGoto("replace") /\ config_file' = new_config
     \/ SaveGoto("finally_raising") /\ config_file' = Some(PartialContent)
  /\ UNCHANGED <<temp_file, backup_file, config_before, new_config,
                 unlink_failed>>
  /\ UNCHANGED <<main_vars, classify_vars, hook_vars,
                 configure_vars, pre_commit_vars, mcp_vars>>

\* json.dump(config, f), f.flush(), os.fsync(f.fileno()): the temp file holds
\* the whole document, or part of it when one of them raises.
SaveWrite ==
  /\ save_pc = "write"
  /\ \/ SaveGoto("replace") /\ temp_file' = new_config
     \/ SaveGoto("finally_raising") /\ temp_file' = Some(PartialContent)
  /\ UNCHANGED <<config_file, backup_file, config_before, new_config,
                 unlink_failed>>
  /\ UNCHANGED <<main_vars, classify_vars, hook_vars,
                 configure_vars, pre_commit_vars, mcp_vars>>

\* os.replace(temp_path, config_path): the config file becomes the temp file
\* in one step, or nothing changes and the call raises.
SaveReplace ==
  /\ save_pc = "replace"
  /\ \/ /\ SaveGoto("finally_returning")
        /\ config_file' = temp_file
        /\ temp_file' = None
     \/ /\ SaveGoto("finally_raising")
        /\ UNCHANGED <<config_file, temp_file>>
  /\ UNCHANGED <<backup_file, config_before, new_config, unlink_failed>>
  /\ UNCHANGED <<main_vars, classify_vars, hook_vars,
                 configure_vars, pre_commit_vars, mcp_vars>>

\* finally: if temp_path.exists(): temp_path.unlink(), an OSError ignored.
SaveFinally ==
  /\ save_pc \in {"finally_returning", "finally_raising"}
  /\ IF temp_file = None
     THEN UNCHANGED <<temp_file, unlink_failed>>
     ELSE \/ temp_file' = None /\ unlink_failed' = unlink_failed
          \/ temp_file' = temp_file /\ unlink_failed' = TRUE
  /\ SaveGoto(IF save_pc = "finally_returning" THEN "returned" ELSE "raised")
  /\ UNCHANGED <<config_file, backup_file, config_before, new_config>>
  /\ UNCHANGED <<main_vars, classify_vars, hook_vars,
                 configure_vars, pre_commit_vars, mcp_vars>>

\* save_mcp_config(config_path, config) is called on the files as they are.
InitSaveMcp ==
  /\ InitMain
  /\ classify_arg = <<>>
  /\ disposition = NotClassified
  /\ InitHooks
  /\ save_pc = "mkdir"
  /\ config_file \in {None} \cup {Some(c) : c \in ConfigContents}
  /\ backup_file \in {None} \cup {Some(c) : c \in ConfigContents}
  /\ temp_file \in {None, Some(StaleContent)}
  /\ config_before = config_file
  /\ new_config \in {Some(c) : c \in ConfigContents}
  /\ unlink_failed = FALSE

  /\ OthersNotRun

NextSaveMcp ==
  \/ SaveMkdir
  \/ SaveBackup
  \/ SaveOpenTemp
  \/ SaveWrite
  \/ SaveReplace
  \/ SaveFinally

SpecSaveMcp == InitSaveMcp /\ [][NextSaveMcp]_vars

(***************************************************************************)
(* setup-mcp.py: install_mcp_servers                                       *)
(***************************************************************************)

\* The config load_mcp_config returns when there is no file.
EmptyMcpConfig == "no_servers"

\* is_mcp_installed for the servers of get_mcp_definitions(): "servers_b" is
\* a config that names them, "servers_a" and the empty config do not.
is_mcp_installed(config) == config = "servers_b"

\* load_mcp_config(config_path, allow_restore): the config file after the
\* call, and the config returned or that the call raised.  A missing or
\* unreadable config file is restored from the backup, when there is one and
\* allow_restore holds, and read again with allow_restore=False.
RECURSIVE load_mcp_config(_, _, _)
load_mcp_config(config, backup, allow_restore) ==
  IF config = None
  THEN IF allow_restore /\ backup # None
       THEN load_mcp_config(backup, backup, FALSE)
       ELSE [config_file |-> config, raised |-> FALSE, value |-> EmptyMcpConfig]
  ELSE IF config[1] \in ConfigContents
  THEN [config_file |-> config, raised |-> FALSE, value |-> config[1]]
  ELSE IF allow_restore /\ backup # None
       THEN load_mcp_config(backup, backup, FALSE)
       ELSE [config_file |-> config, raised |-> TRUE, value |-> EmptyMcpConfig]

\* config = load_mcp_config(config_path)
McpLoad ==
  /\ mcp_pc = "load"
  /\ LET loaded == load_mcp_config(config_file, backup_file, TRUE)
     IN  /\ config_file' = loaded.config_file
         /\ IF loaded.raised
            THEN mcp_pc' = "raised" /\ mcp_config' = mcp_config
            ELSE mcp_pc' = "servers" /\ mcp_config' = Some(loaded.value)
  /\ UNCHANGED <<check_only, force, mcp_result, backup_before>>
  /\ UNCHANGED <<save_pc, backup_file, temp_file, config_before, new_config,
                 unlink_failed>>
  /\ UNCHANGED <<main_vars, classify_vars, hook_vars, configure_vars,
                 pre_commit_vars>>

\* The loop over the definitions and what follows it: a server already
\* installed is skipped unless force; with check_only nothing is added; else
\* the entries are added and save_mcp_config is called.  Without a save the
\* call returns 0 if something was installed or skipped, else 1.
McpServers ==
  /\ mcp_pc = "servers"
  /\ LET skipped == is_mcp_installed(mcp_config[1]) /\ ~force
         installed == ~skipped /\ ~check_only
     IN  IF installed
         THEN /\ mcp_config' = Some("servers_b")
              /\ mcp_pc' = "save"
              /\ save_pc' = "mkdir"
              /\ new_config' = Some("servers_b")
              /\ config_before' = config_file
              /\ mcp_result' = mcp_result
         ELSE /\ mcp_pc' = "returned"
              /\ mcp_result' = IF skipped THEN 0 ELSE 1
              /\ UNCHANGED <<mcp_config, save_pc, new_config, config_before>>
  /\ UNCHANGED <<check_only, force, backup_before>>
  /\ UNCHANGED <<config_file, backup_file, temp_file, unlink_failed>>
  /\ UNCHANGED <<main_vars, classify_vars, hook_vars, configure_vars,
                 pre_commit_vars>>

\* save_mcp_config has returned, or raised: install_mcp_servers returns 0, or
\* the exception leaves it.
McpAfterSave ==
  /\ mcp_pc = "save"
  /\ save_pc \in {"returned", "raised"}
  /\ IF save_pc = "returned"
     THEN mcp_pc' = "returned" /\ mcp_result' = 0
     ELSE mcp_pc' = "raised" /\ mcp_result' = mcp_result
  /\ UNCHANGED <<check_only, force, mcp_config, backup_before>>
  /\ UNCHANGED save_vars
  /\ UNCHANGED <<main_vars, classify_vars, hook_vars, configure_vars,
                 pre_commit_vars>>

\* install_mcp_servers is called on the files as they are: the config file
\* and its backup each missing, readable or unreadable.
InitMcpSetup ==
  /\ InitMain
  /\ classify_arg = <<>>
  /\ disposition = NotClassified
  /\ InitHooks
  /\ ConfigureNotRun
  /\ PreCommitNotCalled
  /\ save_pc = "not_called"
  /\ config_file \in {None, Some(PartialContent)} \cup {Some(c) : c \in ConfigContents}
  /\ backup_file \in {None, Some(PartialContent)} \cup {Some(c) : c \in ConfigContents}
  /\ temp_file = None
  /\ config_before = config_file
  /\ new_config = None
  /\ unlink_failed = FALSE
  /\ mcp_pc = "load"
  /\ check_only \in BOOLEAN
  /\ force \in BOOLEAN
  /\ mcp_config = None
  /\ mcp_result = NoExit
  /\ backup_before = backup_file

NextMcpSetup ==
  \/ McpLoad
  \/ McpServers
  \/ SaveMkdir
  \/ SaveBackup
  \/ SaveOpenTemp
  \/ SaveWrite
  \/ SaveReplace
  \/ SaveFinally
  \/ McpAfterSave

SpecMcpSetup == InitMcpSetup /\ [][NextMcpSetup]_vars

(***************************************************************************)
(* add_hook_to_pre_commit_config, in configure.py (two copies) and setup.py *)
(***************************************************************************)

\* The most repos a .pre-commit-config.yaml holds, and the most calls made.
MaxRepos == 2

MaxCalls == 2

FORBID_ROOT_ARTIFACTS == "forbid-root-artifacts"

\* A hook of a repo: its id and its entry.
Hook(id, entry) == [id |-> id, entry |-> entry]

\* hook_entry, the hook the function writes.
hook_entry == Hook(FORBID_ROOT_ARTIFACTS, "python tools/forbid-root-artifacts/check.py")

\* A repo of the config: its "repo" key and its list of hooks.
Repo(repo, hooks) == [repo |-> repo, hooks |-> hooks]

\* The index of the first repo with repo == "local", 0 when there is none.
first_local(repos) ==
  IF \E i \in DOMAIN repos : repos[i].repo = "local"
  THEN CHOOSE i \in DOMAIN repos :
         /\ repos[i].repo = "local"
         /\ \A j \in 1..(i - 1) : repos[j].repo # "local"
  ELSE 0

\* The index of the first hook with the id, 0 when there is none.
first_hook(hooks) ==
  IF \E i \in DOMAIN hooks : hooks[i].id = FORBID_ROOT_ARTIFACTS
  THEN CHOOSE i \in DOMAIN hooks :
         /\ hooks[i].id = FORBID_ROOT_ARTIFACTS
         /\ \A j \in 1..(i - 1) : hooks[j].id # FORBID_ROOT_ARTIFACTS
  ELSE 0

\* local_repo.setdefault("hooks", []).append(hook_entry) on the first local
\* repo, or repos.append({"repo": "local", "hooks": [hook_entry]}).
append_hook(repos) ==
  LET l == first_local(repos)
  IN  IF l # 0
      THEN [repos EXCEPT ![l].hooks = Append(@, hook_entry)]
      ELSE Append(repos, Repo("local", <<hook_entry>>))

\* The config a call writes when the file does not exist.
new_pre_commit_config == Some(<<Repo("local", <<hook_entry>>)>>)

\* configure.py of the extension: the first local repo is searched for the
\* hook; the hook found there is replaced by hook_entry, else the hook is
\* added; the file is written in every case.
add_hook_configure_extension(config) ==
  IF config = None THEN new_pre_commit_config
  ELSE LET repos == config[1]
           l == first_local(repos)
           existing_hook_idx == IF l = 0 THEN 0 ELSE first_hook(repos[l].hooks)
       IN  IF l # 0 /\ existing_hook_idx # 0
           THEN Some([repos EXCEPT ![l].hooks[existing_hook_idx] = hook_entry])
           ELSE Some(append_hook(repos))

\* configure.py of tools/: every local repo is searched for the hook and the
\* call returns, writing nothing, when one holds it; else the hook is added.
add_hook_configure_tools(config) ==
  IF config = None THEN new_pre_commit_config
  ELSE LET repos == config[1]
       IN  IF \E i \in DOMAIN repos :
                /\ repos[i].repo = "local"
                /\ first_hook(repos[i].hooks) # 0
           THEN config
           ELSE Some(append_hook(repos))

\* setup.py: as configure.py of tools/.
add_hook_setup(config) ==
  IF config = None THEN new_pre_commit_config
  ELSE LET repos == config[1]
       IN  IF \E i \in DOMAIN repos :
                /\ repos[i].repo = "local"
                /\ first_hook(repos[i].hooks) # 0
           THEN config
           ELSE Some(append_hook(repos))

\* The repos a config may hold.
RepoValues ==
  {Repo("local", h) : h \in {<<>>, <<Hook("other", "lint")>>,
                             <<Hook(FORBID_ROOT_ARTIFACTS, "custom")>>,
                             <<Hook("other", "lint"), hook_entry>>}}
  \cup {Repo("https://github.com/pre-commit/pre-commit-hooks",
             <<Hook("other", "lint")>>)}

RECURSIVE ReposOfLen(_)
ReposOfLen(k) ==
  IF k = 0 THEN {<<>>}
  ELSE {Append(rs, r) : rs \in ReposOfLen(k - 1), r \in RepoValues}

\* The hooks with the id that sit in local repos.
LocalHookCount(repos) ==
  Cardinality({p \in UNION {{<<i, j>> : j \in DOMAIN repos[i].hooks} :
                               i \in DOMAIN repos} :
                 /\ repos[p[1]].repo = "local"
                 /\ repos[p[1]].hooks[p[2]].id = FORBID_ROOT_ARTIFACTS})

\* No file, or a config that holds at most one hook with the id.
PreCommitConfigs ==
  {None} \cup {Some(rs) : rs \in {x \in UNION {ReposOfLen(k) : k \in 0..MaxRepos} :
                                      LocalHookCount(x) <= 1}}

InitPreCommit ==
  /\ InitMain
  /\ classify_arg = <<>>
  /\ disposition = NotClassified
  /\ InitHooks
  /\ SaveNotCalled
  /\ ConfigureNotRun
  /\ McpNotCalled
  /\ pre_commit_config \in PreCommitConfigs
  /\ pre_commit_before = pre_commit_config
  /\ hook_copy \in {"configure_extension", "configure_tools", "setup"}
  /\ add_calls = 0

\* One more call of the copy, the file being what the last call left.
AddHookCalled ==
  /\ add_calls < MaxCalls
  /\ add_calls' = add_calls + 1
  /\ UNCHANGED <<pre_commit_before, hook_copy>>
  /\ UNCHANGED <<main_vars, classify_vars, hook_vars, save_vars,
                 configure_vars, mcp_vars>>

AddHookConfigureExtension ==
  /\ hook_copy = "configure_extension"
  /\ pre_commit_config' = add_hook_configure_extension(pre_commit_config)
  /\ AddHookCalled

AddHookConfigureTools ==
  /\ hook_copy = "configure_tools"
  /\ pre_commit_config' = add_hook_configure_tools(pre_commit_config)
  /\ AddHookCalled

AddHookSetup ==
  /\ hook_copy = "setup"
  /\ pre_commit_config' = add_hook_setup(pre_commit_config)
  /\ AddHookCalled

NextPreCommit ==
  \/ AddHookConfigureExtension
  \/ AddHookConfigureTools
  \/ AddHookSetup

SpecPreCommit == InitPreCommit /\ [][NextPreCommit]_vars

(***************************************************************************)
(* configure.py: main                                                      *)
(***************************************************************************)

\* The entries of the roots configure is run on.
ConfigureEntries ==
  {Entry(n, FALSE) : n \in {n_README_md, n_readme_md, n_src_py, n_GIT}}
  \cup {Entry(n_src, TRUE)}

ConfigureListings == {es \in SUBSET ConfigureEntries : Cardinality(es) <= MaxEntries}

\* The .root-artifacts.yaml files configure is run on.
ConfigureUserDocs ==
  {AbsentDoc, MalformedDoc, NotMappingDoc}
  \cup {d \in UserDocs :
          /\ d.kind = "mapping"
          /\ d.data[1].mode # Some("replac")
          /\ d.data[1].ignore_patterns = None}

\* What interactive_select can return: fallback_select takes any list of
\* numbers, a number more than once too; as many as there are files.
RECURSIVE SelectionsOfLen(_, _)
SelectionsOfLen(files, k) ==
  IF k = 0 THEN {<<>>}
  ELSE {Append(s, files[i]) : s \in SelectionsOfLen(files, k - 1),
                              i \in DOMAIN files}

Selections(files) == UNION {SelectionsOfLen(files, k) : k \in 0..Len(files)}

\* repo_root = get_repo_root(): git answers, or fails and main returns 2.
ConfigureGetRepoRoot ==
  /\ pc = "get_repo_root"
  /\ \/ pc' = "setup_pre_commit_hook" /\ exit_code' = exit_code
     \/ Exit(2)
  /\ UNCHANGED <<default_doc, user_doc, root_entries, defaults, user_config,
                 allowed_files, patterns, allowed_directories, violations,
                 trash_files, config_files, unknown_files>>
  /\ UNCHANGED <<classify_vars, hook_vars, save_vars, configure_vars,
                 pre_commit_vars, mcp_vars>>

\* setup_pre_commit_hook(repo_root): without pre-commit it returns False at
\* once, else it calls add_hook_to_pre_commit_config; main() goes on in both
\* cases.
ConfigureSetupPreCommitHook ==
  /\ pc = "setup_pre_commit_hook"
  /\ \/ UNCHANGED <<pre_commit_config, add_calls>>
     \/ /\ pre_commit_config' = add_hook_configure_extension(pre_commit_config)
        /\ add_calls' = add_calls + 1
  /\ pc' = "load_defaults"
  /\ UNCHANGED <<default_doc, user_doc, root_entries, defaults, user_config,
                 allowed_files, patterns, allowed_directories, violations,
                 trash_files, config_files, unknown_files, exit_code>>
  /\ UNCHANGED <<pre_commit_before, hook_copy>>
  /\ UNCHANGED <<classify_vars, hook_vars, save_vars, configure_vars, mcp_vars>>

\* defaults = load_default_whitelist(script_dir); what it raises is not caught.
ConfigureLoadDefaultWhitelist ==
  /\ pc = "load_defaults"
  /\ \E doc \in DefaultDocs :
       /\ default_doc' = doc
       /\ IF doc.kind \in {"malformed", "not_mapping"}
          THEN Exit(1) /\ defaults' = defaults
          ELSE /\ defaults' = load_default_whitelist(doc)
               /\ pc' = "load_user"
               /\ exit_code' = exit_code
  /\ UNCHANGED <<user_doc, root_entries, user_config, allowed_files, patterns,
                 allowed_directories, violations, trash_files, config_files,
                 unknown_files>>
  /\ UNCHANGED <<classify_vars, hook_vars, save_vars, configure_vars,
                 pre_commit_vars, mcp_vars>>

\* user_config = load_user_config(repo_root)
ConfigureLoadUserConfig ==
  /\ pc = "load_user"
  /\ \E doc \in ConfigureUserDocs :
       /\ user_doc' = doc
       /\ IF configure_load_user_config(doc).raised
          THEN Exit(1) /\ user_config' = user_config
          ELSE /\ user_config' = configure_load_user_config(doc).value
               /\ pc' = "build_whitelist"
               /\ exit_code' = exit_code
  /\ UNCHANGED <<default_doc, root_entries, defaults, allowed_files, patterns,
                 allowed_directories, violations, trash_files, config_files,
                 unknown_files>>
  /\ UNCHANGED <<classify_vars, hook_vars, save_vars, configure_vars,
                 pre_commit_vars, mcp_vars>>

\* allowed_files, patterns = build_whitelist(defaults, user_config)
ConfigureBuildWhitelist ==
  /\ pc = "build_whitelist"
  /\ allowed_files' = configure_build_whitelist(defaults, user_config)[1]
  /\ patterns' = configure_build_whitelist(defaults, user_config)[2]
  /\ pc' = "find_files"
  /\ UNCHANGED <<default_doc, user_doc, root_entries, defaults, user_config,
                 allowed_directories, violations, trash_files, config_files,
                 unknown_files, exit_code>>
  /\ UNCHANGED <<classify_vars, hook_vars, save_vars, configure_vars,
                 pre_commit_vars, mcp_vars>>

\* not_in_whitelist = find_files_not_in_whitelist(...); return 0 when it is
\* empty.
ConfigureFindFiles ==
  /\ pc = "find_files"
  /\ \E es \in ConfigureListings : \E listing \in IterOrders(es) :
       /\ root_entries' = es
       /\ root_listing' = listing
       /\ not_in_whitelist' =
            find_files_not_in_whitelist(listing, allowed_files, patterns)
  /\ IF not_in_whitelist' = <<>>
     THEN Exit(0)
     ELSE pc' = "select" /\ exit_code' = exit_code
  /\ UNCHANGED <<default_doc, user_doc, defaults, user_config, allowed_files,
                 patterns, allowed_directories, violations, trash_files,
                 config_files, unknown_files>>
  /\ UNCHANGED <<selected, non_interactive, saved_doc>>
  /\ UNCHANGED <<classify_vars, hook_vars, save_vars, pre_commit_vars, mcp_vars>>

\* selected = not_in_whitelist with --non-interactive, else what
\* interactive_select returns; return 0 when it is empty.
ConfigureSelect ==
  /\ pc = "select"
  /\ IF non_interactive
     THEN selected' = not_in_whitelist
     ELSE selected' \in Selections(not_in_whitelist)
  /\ IF selected' = <<>>
     THEN Exit(0)
     ELSE pc' = "save" /\ exit_code' = exit_code
  /\ UNCHANGED <<default_doc, user_doc, root_entries, defaults, user_config,
                 allowed_files, patterns, allowed_directories, violations,
                 trash_files, config_files, unknown_files>>
  /\ UNCHANGED <<root_listing, not_in_whitelist, non_interactive, saved_doc>>
  /\ UNCHANGED <<classify_vars, hook_vars, save_vars, pre_commit_vars, mcp_vars>>

\* The selected names are added to user_config.allow, UserConfig() standing
\* in when no policy was loaded, and save_user_config writes the policy;
\* return 0.
ConfigureSave ==
  /\ pc = "save"
  /\ LET config == IF user_config = None THEN UserConfig ELSE user_config[1]
         updated == [config EXCEPT !.allow = add_selected(@, selected)]
     IN  /\ user_config' = Some(updated)
         /\ saved_doc' = Some(save_user_config(updated))
  /\ Exit(0)
  /\ UNCHANGED <<default_doc, user_doc, root_entries, defaults,
                 allowed_files, patterns, allowed_directories, violations,
                 trash_files, config_files, unknown_files>>
  /\ UNCHANGED <<root_listing, not_in_whitelist, selected, non_interactive>>
  /\ UNCHANGED <<classify_vars, hook_vars, save_vars, pre_commit_vars, mcp_vars>>

\* configure.py is started with or without --non-interactive, in a
\* repository without a .pre-commit-config.yaml.
InitConfigure ==
  /\ InitMain
  /\ classify_arg = <<>>
  /\ disposition = NotClassified
  /\ InitHooks
  /\ SaveNotCalled
  /\ PreCommitNotCalled
  /\ McpNotCalled
  /\ root_listing = <<>>
  /\ not_in_whitelist = <<>>
  /\ selected = <<>>
  /\ saved_doc = None
  /\ non_interactive \in BOOLEAN

NextConfigure ==
  \/ ConfigureGetRepoRoot
  \/ ConfigureSetupPreCommitHook
  \/ ConfigureLoadDefaultWhitelist
  \/ ConfigureLoadUserConfig
  \/ ConfigureBuildWhitelist
  \/ ConfigureFindFiles
  \/ ConfigureSelect
  \/ ConfigureSave

SpecConfigure == InitConfigure /\ [][NextConfigure]_vars

(***************************************************************************)
(* Properties of the scanner                                               *)
(***************************************************************************)

\* build_whitelist has just returned; what it returned does not change later.
Built == pc = "find_violations"

\* find_violations has just returned; the report does not change its list.
Scanned == pc = "report"

\* The positions of the violations that carry the given filename.
Reports(reported) ==
  {i \in DOMAIN violations : violations[i].filename = reported}

FileEntries == {e \in root_entries : ~e.is_dir}

DirEntries == {e \in root_entries : e.is_dir}

IsVcsName(name) == lower(name) \in always_allowed_dirs

\* Some pattern of ps, lower-cased, matches the lower-cased name.
SomePatternMatches(name, ps) ==
  \E i \in DOMAIN ps : fnmatch(lower(name), lower(ps[i]))

\* C1: a file of the root is reported, once, under its own name and with the
\* not-whitelisted reason, exactly when its lower-cased name is not an allowed
\* name and matches no lower-cased pattern; otherwise it is not reported.
C1_FileReportedIffNotWhitelisted ==
  Scanned =>
    \A e \in FileEntries :
      IF lower(e.name) \notin allowed_files /\ ~SomePatternMatches(e.name, patterns)
      THEN /\ Cardinality(Reports(e.name)) = 1
           /\ \A i \in Reports(e.name) :
                violations[i] = Violation(e.name, FILE_NOT_IN_WHITELIST)
      ELSE Reports(e.name) = {}

\* C1 witness: one file is reported and another, whose name is not an allowed
\* name, is let through by a pattern.
C1_Witness ==
  /\ Scanned
  /\ \E e \in FileEntries : Reports(e.name) # {} /\ e.name # lower(e.name)
  /\ \E e \in FileEntries :
       /\ lower(e.name) \notin allowed_files
       /\ SomePatternMatches(e.name, patterns)
       /\ Reports(e.name) = {}

\* Scenario B of the specification: only build/ is reported.
ScenarioB ==
  LET d == DefaultConfig(<<>>, <<<<"*", ".", "m", "d">>>>)
      u == Some(Config("extend", <<<<"M", "a", "k", "e", "f", "i", "l", "e">>>>, <<>>,
                       Some(<<<<"s", "r", "c">>>>), <<>>))
      listing == <<Entry(<<"R", "E", "A", "D", "M", "E", ".", "m", "d">>, FALSE),
                   Entry(<<"M", "a", "k", "e", "f", "i", "l", "e">>, FALSE),
                   Entry(<<"b", "u", "i", "l", "d">>, TRUE),
                   Entry(<<"s", "r", "c">>, TRUE)>>
      w == build_whitelist(d, u)
  IN  find_violations(listing, w[1], w[2], main_allowed_directories(u))
        = <<Violation(<<"b", "u", "i", "l", "d", "/">>, DIRECTORY_NOT_ALLOWED)>>

\* C2: with allowed_directories present, a directory that is not a VCS
\* directory is reported, once, as <name>/ with the directory reason exactly
\* when its lower-cased name is not among the lower-cased allowed_directories;
\* with the empty list every such directory is reported.
C2_DirectoryReportedIffNotAllowed ==
  /\ ScenarioB
  /\ (Scanned /\ allowed_directories # None) =>
       \A e \in DirEntries :
         ~IsVcsName(e.name) =>
           IF \E i \in DOMAIN allowed_directories[1] :
                lower(allowed_directories[1][i]) = lower(e.name)
           THEN Reports(e.name \o <<"/">>) = {}
           ELSE /\ Cardinality(Reports(e.name \o <<"/">>)) = 1
                /\ \A i \in Reports(e.name \o <<"/">>) :
                     violations[i].reason = DIRECTORY_NOT_ALLOWED

\* C2 witness: a populated list lets one directory through, spelled in
\* another case, and has another directory reported.
C2_Witness ==
  /\ Scanned
  /\ allowed_directories # None
  /\ \E e \in DirEntries :
       /\ e.name \notin SetOf(allowed_directories[1])
       /\ lower(e.name) \in LowerSet(allowed_directories[1])
       /\ Reports(e.name \o <<"/">>) = {}
  /\ \E e \in DirEntries : Reports(e.name \o <<"/">>) # {}

\* The user policy gives no allowed_directories: there is no user policy, or
\* its document lacks the key.
NoAllowedDirectoriesGiven ==
  \/ user_doc.kind = "absent"
  \/ user_doc.kind = "mapping" /\ user_doc.data[1].allowed_directories = None

\* C3: without allowed_directories the scanner is handed None, not the empty
\* list, and reports no directory, whatever the names and patterns.
C3_NoDirectoryReportedWhenAbsent ==
  /\ (Built /\ NoAllowedDirectoriesGiven) => allowed_directories = None
  /\ (Scanned /\ allowed_directories = None) =>
       /\ \A e \in DirEntries : Reports(e.name \o <<"/">>) = {}
       /\ \A i \in DOMAIN violations : violations[i].reason # DIRECTORY_NOT_ALLOWED

\* C3 witness: a user policy without the key, and a root with a directory
\* that no list names.
C3_Witness ==
  /\ Scanned
  /\ user_doc.kind = "mapping"
  /\ user_doc.data[1].allowed_directories = None
  /\ \E e \in DirEntries : ~IsVcsName(e.name) /\ lower(e.name) \notin allowed_files

(***************************************************************************)
(* Properties of the policy resolver                                       *)
(***************************************************************************)

\* A user policy whose mode is anything but "replace".
ExtendMode == user_config # None /\ user_config[1].mode # "replace"

ReplaceMode == user_config # None /\ user_config[1].mode = "replace"

\* C4: in extend mode a name is allowed exactly when it is a default file or
\* a lower-cased allow entry and is not a lower-cased deny entry, and the
\* patterns are the default patterns followed by the user's ignore_patterns.
C4_ExtendAddsAllowSubtractsDeny ==
  (Built /\ ExtendMode) =>
    LET u == user_config[1]
        IsDefault(n) == \E i \in DOMAIN defaults.files : defaults.files[i] = n
        IsAllowed(n) == \E i \in DOMAIN u.allow : lower(u.allow[i]) = n
        IsDenied(n) == \E i \in DOMAIN u.deny : lower(u.deny[i]) = n
        np == Len(defaults.patterns)
    IN  /\ \A n \in allowed_files \cup SetOf(defaults.files)
                      \cup LowerSet(u.allow) \cup LowerSet(u.deny) :
             n \in allowed_files <=> ((IsDefault(n) \/ IsAllowed(n)) /\ ~IsDenied(n))
        /\ Len(patterns) = np + Len(u.ignore_patterns)
        /\ \A i \in 1..np : patterns[i] = defaults.patterns[i]
        /\ \A i \in DOMAIN u.ignore_patterns : patterns[np + i] = u.ignore_patterns[i]

\* C4 witness: extend mode with a name both allowed and denied, a default
\* name denied, a default name kept, and patterns from both sides.
C4_Witness ==
  /\ Built
  /\ ExtendMode
  /\ LowerSet(user_config[1].allow) \cap LowerSet(user_config[1].deny) # {}
  /\ SetOf(defaults.files) \cap LowerSet(user_config[1].deny) # {}
  /\ SetOf(defaults.files) \cap allowed_files # {}
  /\ defaults.patterns # <<>>
  /\ user_config[1].ignore_patterns # <<>>

\* The default policies default-whitelist.yaml can load to.
LoadableDefaults ==
  {load_default_whitelist(d) : d \in {x \in DefaultDocs : x.kind \in {"absent", "mapping"}}}

\* C5: in replace mode the allowed names are the lower-cased allow entries
\* and the patterns the user's ignore_patterns; every default policy gives
\* this same result, and a file only the defaults whitelist is reported.
C5_ReplaceIgnoresDefaults ==
  /\ (Built /\ ReplaceMode) =>
       /\ allowed_files = LowerSet(user_config[1].allow)
       /\ patterns = user_config[1].ignore_patterns
       /\ \A d \in LoadableDefaults :
            build_whitelist(d, user_config) = <<allowed_files, patterns>>
  /\ (Scanned /\ ReplaceMode) =>
       \A e \in FileEntries :
         (/\ lower(e.name) \notin LowerSet(user_config[1].allow)
          /\ ~SomePatternMatches(e.name, user_config[1].ignore_patterns))
           => Reports(e.name) # {}

\* C5 witness: replace mode, and a reported file that the defaults name or
\* match.
C5_Witness ==
  /\ Scanned
  /\ ReplaceMode
  /\ \E e \in FileEntries :
       /\ lower(e.name) \in SetOf(defaults.files)
       /\ SomePatternMatches(e.name, defaults.patterns)
       /\ Reports(e.name) # {}

\* C6: without a user policy the allowed names are the default files, the
\* patterns the default patterns, and the scanner is handed None.
C6_NoUserPolicyGivesDefaults ==
  (Built /\ user_doc.kind = "absent") =>
    /\ user_config = None
    /\ \A n \in allowed_files \cup SetOf(defaults.files) :
         n \in allowed_files <=> \E i \in DOMAIN defaults.files : defaults.files[i] = n
    /\ patterns = defaults.patterns
    /\ allowed_directories = None

\* C6 witness: no user policy, defaults with files and patterns.
C6_Witness ==
  /\ Built
  /\ user_doc.kind = "absent"
  /\ defaults.files # <<>>
  /\ defaults.patterns # <<>>

(***************************************************************************)
(* Properties of the scanner on directories and on letter case             *)
(***************************************************************************)

\* .git, .svn and .hg in several letter cases.
VcsSpellings ==
  {<<".", "g", "i", "t">>, <<".", "G", "I", "T">>, <<".", "G", "i", "t">>, <<".", "s", "v", "n">>, <<".", "S", "V", "N">>, <<".", "s", "V", "n">>, <<".", "h", "g">>, <<".", "H", "G">>, <<".", "H", "g">>}

\* C7: a directory named .git, .svn or .hg, in any letter case, is never
\* reported, under any policy the run resolved.
C7_VcsDirectoryNeverReported ==
  /\ Scanned =>
       \A e \in DirEntries : IsVcsName(e.name) => Reports(e.name \o <<"/">>) = {}
  /\ Built =>
       \A n \in VcsSpellings :
         find_violations(<<Entry(n, TRUE)>>, allowed_files, patterns,
                         allowed_directories) = <<>>

\* C7 witness: the empty allowed_directories list, a VCS directory spelled in
\* capitals beside a directory that is reported.
C7_Witness ==
  /\ Scanned
  /\ allowed_directories = Some(<<>>)
  /\ \E e \in DirEntries : IsVcsName(e.name) /\ e.name # lower(e.name)
  /\ \E e \in DirEntries : Reports(e.name \o <<"/">>) # {}

\* What find_violations answered for an entry: whether it is reported.
Reported(e) == Reports(IF e.is_dir THEN e.name \o <<"/">> ELSE e.name) # {}

\* C8: a directory that allowed_directories does not permit is reported even
\* when its name is an allowed name or matches a pattern; a directory is
\* never reported as a file; and what is answered for a directory is the
\* same under every set of allowed names and every pattern list.
C8_DirectoriesJudgedByAllowedDirectoriesOnly ==
  Scanned =>
    \A e \in DirEntries :
      /\ (/\ lower(e.name) \in allowed_files \/ SomePatternMatches(e.name, patterns)
          /\ allowed_directories # None
          /\ lower(e.name) \notin LowerSet(allowed_directories[1])
          /\ ~IsVcsName(e.name))
           => \E i \in DOMAIN violations :
                violations[i] = Violation(e.name \o <<"/">>, DIRECTORY_NOT_ALLOWED)
      /\ Reports(e.name) = {}
      /\ \A af \in {{}, {lower(e.name)}} : \A ps \in {<<>>, <<<<"*">>>>} :
           (find_violations(<<e>>, af, ps, allowed_directories) # <<>>) = Reported(e)

\* C8 witness: a reported directory whose name is an allowed name, and one
\* whose name matches a pattern.
C8_Witness ==
  /\ Scanned
  /\ \E e \in DirEntries : lower(e.name) \in allowed_files /\ Reported(e)
  /\ \E e \in DirEntries : SomePatternMatches(e.name, patterns) /\ Reported(e)

\* A name respelled in capitals or in small letters.
respell(how, s) == IF how = "upper" THEN upper(s) ELSE lower(s)

\* A list of names of a document, each name respelled.
RespellNames(how, field) ==
  IF field = None THEN None
  ELSE Some([i \in DOMAIN field[1] |-> respell(how, field[1][i])])

\* default-whitelist.yaml as read, its file names respelled.
RespelledDefaultDoc(how) ==
  IF default_doc.kind # "mapping" THEN default_doc
  ELSE MappingDoc([files |-> RespellNames(how, default_doc.data[1].files),
                   patterns |-> default_doc.data[1].patterns])

\* .root-artifacts.yaml as read, the names of allow, deny and
\* allowed_directories respelled.
RespelledUserDoc(how) ==
  IF user_doc.kind # "mapping" THEN user_doc
  ELSE LET data == user_doc.data[1]
       IN  MappingDoc([mode |-> data.mode,
                       allow |-> RespellNames(how, data.allow),
                       deny |-> RespellNames(how, data.deny),
                       allowed_directories |->
                         RespellNames(how, data.allowed_directories),
                       ignore_patterns |-> data.ignore_patterns])

\* C9: the verdict on a root entry is the same when the entry's name is
\* respelled in another letter case, and when the names of the default file
\* list, allow, deny and allowed_directories are.
C9_VerdictIgnoresLetterCase ==
  Scanned =>
    \A how \in {"upper", "lower"} :
      LET d2 == load_default_whitelist(RespelledDefaultDoc(how))
          u2 == load_user_config(RespelledUserDoc(how))
          w2 == build_whitelist(d2, u2)
          ad2 == main_allowed_directories(u2)
      IN  \A e \in root_entries :
            /\ (find_violations(<<Entry(respell(how, e.name), e.is_dir)>>,
                                allowed_files, patterns, allowed_directories)
                  # <<>>) = Reported(e)
            /\ (find_violations(<<e>>, w2[1], w2[2], ad2) # <<>>) = Reported(e)

\* C9 witness: README.md and readme.md are both in the root, and the policy
\* names the file in a third spelling.
C9_Witness ==
  /\ Scanned
  /\ default_doc.kind = "mapping"
  /\ default_doc.data[1].files = Some(<<<<"R", "e", "a", "d", "m", "e", ".", "M", "D">>, <<"s", "r", "c">>>>)
  /\ default_doc.data[1].patterns = None
  /\ user_doc.kind = "absent"
  /\ root_entries = {Entry(<<"R", "E", "A", "D", "M", "E", ".", "m", "d">>, FALSE), Entry(<<"r", "e", "a", "d", "m", "e", ".", "m", "d">>, FALSE)}
  /\ violations = <<>>

(***************************************************************************)
(* Properties of the triage classifier                                     *)
(***************************************************************************)

\* Some pattern of the table, lower-cased, matches the lower-cased name.
MatchesTable(name, table) ==
  \E i \in DOMAIN table : fnmatch(lower(name), lower(table[i]))

\* The disposition is trash exactly for a match in the trash table, config
\* exactly for no trash match and a match in the config table, else unknown.
ClassifiedByTables ==
  /\ disposition = "trash" <=> MatchesTable(classify_arg, TRASH_PATTERNS)
  /\ disposition = "config" <=>
       (~MatchesTable(classify_arg, TRASH_PATTERNS)
        /\ MatchesTable(classify_arg, CONFIG_PATTERNS))
  /\ disposition = "unknown" <=>
       (~MatchesTable(classify_arg, TRASH_PATTERNS)
        /\ ~MatchesTable(classify_arg, CONFIG_PATTERNS))

\* The three examples of Scenario D.
ScenarioD ==
  /\ classify_arg = n_npm_debug_log_1 => disposition = "trash"
  /\ classify_arg = n_docker_compose_override_yml => disposition = "config"
  /\ classify_arg = n_setup_v2_FINAL_py => disposition = "unknown"

\* C10 as amended: classify_file answers by the tables, trash first; a name
\* matching both tables, such as Dockerfile.bak, is trash; package.json.bak,
\* which matches trash patterns only, is trash; Scenario D holds.
C10_ClassifiedByTablesTrashFirst ==
  disposition # NotClassified =>
    /\ ClassifiedByTables
    /\ ScenarioD
    /\ classify_arg = n_Dockerfile_bak =>
         /\ MatchesTable(classify_arg, TRASH_PATTERNS)
         /\ MatchesTable(classify_arg, CONFIG_PATTERNS)
         /\ disposition = "trash"
    /\ classify_arg = n_package_json_bak =>
         /\ ~MatchesTable(classify_arg, CONFIG_PATTERNS)
         /\ disposition = "trash"

\* C10 witness: a classified name that matches both tables.
C10_Witness ==
  /\ disposition = "trash"
  /\ MatchesTable(classify_arg, TRASH_PATTERNS)
  /\ MatchesTable(classify_arg, CONFIG_PATTERNS)

\* C10 as stated: the same, with package.json.bak as the example of a name
\* that matches both tables.
C10_AsStated ==
  disposition # NotClassified =>
    /\ ClassifiedByTables
    /\ ScenarioD
    /\ classify_arg = n_package_json_bak =>
         /\ MatchesTable(classify_arg, TRASH_PATTERNS)
         /\ MatchesTable(classify_arg, CONFIG_PATTERNS)
         /\ disposition = "trash"

(***************************************************************************)
(* Order and determinism of the scanner                                    *)
(***************************************************************************)

\* The case-folded entry name of a violation: its filename, lower-cased,
\* without the "/" that marks a directory.
folded_entry_name(v) ==
  LET f == v.filename
  IN  IF f # <<>> /\ f[Len(f)] = "/" THEN lower(SubSeq(f, 1, Len(f) - 1))
      ELSE lower(f)

\* C11: the violation list is ordered by the case-folded entry name alone,
\* the trailing directory marker not counting: no violation comes after one
\* whose case-folded entry name is greater.
C11_OrderedByFoldedNameAlone ==
  Scanned =>
    \A i, j \in DOMAIN violations :
      i < j => ~StrLess(folded_entry_name(violations[j]),
                        folded_entry_name(violations[i]))

\* C12: for the entries of the root and the policy in force, every order in
\* which the listing can yield the entries gives the violation sequence that
\* was returned.
C12_SameSequenceForEveryOrder ==
  Scanned =>
    \A o \in IterOrders(root_entries) :
      find_violations(o, allowed_files, patterns, allowed_directories) = violations

(***************************************************************************)
(* Modes, exit codes and loaders                                           *)
(***************************************************************************)

\* Mode strings that are not exactly "replace".
OtherModes == {"replac", "Replace", "REPLACE", "", "merge", "extend"}

WithMode(m) == Some([user_config[1] EXCEPT !.mode = m])

\* C13: for a mode that is not exactly "replace", build_whitelist returned
\* what it returns for mode "extend" with the same defaults and user lists,
\* and so it does for every other spelling that is not "replace".
C13_UnknownModeIsExtend ==
  (Built /\ ExtendMode) =>
    /\ <<allowed_files, patterns>> = build_whitelist(defaults, WithMode("extend"))
    /\ \A m \in OtherModes :
         build_whitelist(defaults, WithMode(m))
           = build_whitelist(defaults, WithMode("extend"))

\* C13 witness: the mode is the typo "replac", and the replace branch would
\* have answered otherwise.
C13_Witness ==
  /\ Built
  /\ user_config # None
  /\ user_config[1].mode = "replac"
  /\ build_whitelist(defaults, WithMode("replace")) # <<allowed_files, patterns>>

\* main() reached find_violations: both documents were loaded.
ScannerRan == user_doc.kind \in {"absent", "mapping"}

\* C14: at exit the code is 0 exactly when the scanner produced no violation,
\* 1 exactly when it produced at least one, and 2 only when the repository
\* root cannot be determined or a policy document is invalid.
C14_ExitCodeTellsOutcome ==
  pc = "exit" =>
    /\ exit_code \in {0, 1, 2}
    /\ exit_code = 0 <=> (ScannerRan /\ violations = <<>>)
    /\ exit_code = 1 <=> (ScannerRan /\ violations # <<>>)
    /\ exit_code = 2 =>
         \/ default_doc = UnreadDoc
         \/ default_doc.kind \in {"malformed", "not_mapping"}
         \/ user_doc.kind \in {"malformed", "not_mapping"}

\* A document that is unparsable or not a mapping.
IsMalformed(doc) == doc.kind \in {"malformed", "not_mapping"}

\* C15: a malformed policy document makes every loader fail: check.py does
\* not go on to build a whitelist from it and does not exit with 0, and
\* load_user_config of configure.py raises rather than return None or a
\* policy.
C15_MalformedDocumentFailsEveryLoader ==
  /\ IsMalformed(default_doc) => pc = "exit" /\ exit_code # 0
  /\ IsMalformed(user_doc) =>
       /\ pc = "exit" /\ exit_code # 0
       /\ configure_load_user_config(user_doc).raised

(***************************************************************************)
(* The report and purity of the resolver                                   *)
(***************************************************************************)

\* The places of the elements of list in violations, in the order of list.
IsSubsequenceInOrder(list) ==
  \A i, j \in DOMAIN list :
    i < j => \E a, b \in DOMAIN violations :
               a < b /\ violations[a] = list[i] /\ violations[b] = list[j]

LastCommitIsYoung ==
  state_file # None /\ now - state_file[1] < MIN_INTERVAL_MINUTES

\* C18: two commits the handler made are at least the interval apart, also
\* when runs overlap, and no run is about to commit while the recorded last
\* commit is younger than the interval.
C18_CommitsAtLeastIntervalApart ==
  /\ \A i, j \in DOMAIN git_log :
       i < j => git_log[j] - git_log[i] >= MIN_INTERVAL_MINUTES
  /\ \A h \in Hooks : hook_pc[h] = "commit" => ~LastCommitIsYoung

\* C19: a run of the script that has ended has ended with exit code 0.
C19_HookAlwaysExitsZero ==
  \A h \in Hooks : hook_pc[h] = "exited" => hook_exit[h] = 0

(***************************************************************************)
(* Properties of save_mcp_config                                           *)
(***************************************************************************)

\* os.replace has put the new document in place.
Replaced == save_pc \in {"finally_returning", "returned"}

SaveEnded == save_pc \in {"returned", "raised"}

\* The config file holds what it held before the call until it holds the
\* whole new document, and by then a config file that existed is backed up.
BackupThenAtomicWrite ==
  /\ config_file = (IF Replaced THEN new_config ELSE config_before)
  /\ (Replaced /\ config_before # None) => backup_file = config_before
  /\ save_pc = "raised" => config_file = config_before

\* C20 as amended: backup, then atomic write; no .tmp file remains after the
\* call returns, and after it raises one remains only when its removal failed
\* with the ignored OSError, or when the call raised before it opened the
\* temp file and a .tmp file was already there.
C20_BackupThenAtomicWrite ==
  /\ BackupThenAtomicWrite
  /\ save_pc = "returned" => temp_file = None
  /\ (save_pc = "raised" /\ temp_file # None) =>
       unlink_failed \/ temp_file = Some(StaleContent)

\* C20 witness: the call returned after replacing a config file by a
\* different document, the old one backed up.
C20_Witness ==
  /\ save_pc = "returned"
  /\ config_before # None
  /\ config_before # new_config
  /\ backup_file = config_before
  /\ config_file = new_config

\* C20 as stated: backup, then atomic write, and no .tmp file remains after
\* the call returns or raises.
C20_AsStated ==
  /\ BackupThenAtomicWrite
  /\ SaveEnded => temp_file = None

(***************************************************************************)
(* Properties of the report on directories, of deny and of VCS names       *)
(***************************************************************************)

\* The name a directory violation carries.
Marked(name) == name \o <<"/">>

\* The list of the report that holds the violations of a disposition.
ReportList(d) ==
  IF d = "trash" THEN trash_files
  ELSE IF d = "config" THEN config_files
  ELSE unknown_files

\* README.md matches the config table; README.md/ matches neither table.
MarkedNameIsTheSubject ==
  /\ ~MatchesTable(n_README_md, TRASH_PATTERNS)
  /\ MatchesTable(n_README_md, CONFIG_PATTERNS)
  /\ ~MatchesTable(Marked(n_README_md), TRASH_PATTERNS)
  /\ ~MatchesTable(Marked(n_README_md), CONFIG_PATTERNS)

\* C21: a directory violation is in the list of the disposition of its
\* marked name, name and "/", and in no other list; a directory README.md is
\* unknown, not config, since no table pattern matches "README.md/".
C21_DirectoryClassifiedByMarkedName ==
  (pc = "exit" /\ violations # <<>>) =>
    /\ MarkedNameIsTheSubject
    /\ \A e \in DirEntries :
         LET v == Violation(Marked(e.name), DIRECTORY_NOT_ALLOWED)
         IN  v \in SetOf(violations) =>
               /\ \A d \in {"trash", "config", "unknown"} :
                    v \in SetOf(ReportList(d)) <=> d = Dispositions[Marked(e.name)]
               /\ e.name = n_README_md => v \in SetOf(unknown_files)

\* C21 witness: a reported directory whose bare name is a config name.
C21_Witness ==
  /\ pc = "exit"
  /\ \E e \in DirEntries :
       /\ Dispositions[e.name] = "config"
       /\ Violation(Marked(e.name), DIRECTORY_NOT_ALLOWED) \in SetOf(unknown_files)

\* The user policy with another deny list.
WithDeny(d) == Some([user_config[1] EXCEPT !.deny = d])

\* C22: in replace mode build_whitelist returned what it returns for every
\* other deny list, and a name in both allow and deny is an allowed name.
C22_ReplaceIgnoresDeny ==
  (Built /\ ReplaceMode) =>
    LET u == user_config[1]
    IN  /\ \A d \in {<<>>, u.allow, u.deny, u.allow \o u.deny} :
             build_whitelist(defaults, WithDeny(d)) = <<allowed_files, patterns>>
        /\ LowerSet(u.allow) \cap LowerSet(u.deny) \subseteq allowed_files

\* C22 witness: replace mode with a name in both allow and deny.
C22_Witness ==
  /\ Built
  /\ ReplaceMode
  /\ LowerSet(user_config[1].allow) \cap LowerSet(user_config[1].deny) # {}

\* C23: in extend mode a file whose lower-cased name is in deny is reported
\* exactly when it matches no default pattern and no ignore_pattern.
C23_DenyDoesNotOverridePatterns ==
  (Scanned /\ ExtendMode) =>
    LET u == user_config[1]
    IN  \A e \in FileEntries :
          lower(e.name) \in LowerSet(u.deny) =>
            (Reported(e) <=>
               ~SomePatternMatches(e.name, defaults.patterns \o u.ignore_patterns))

\* C23 witness: a denied file that a pattern permits and a denied file that
\* is reported.
C23_Witness ==
  /\ Scanned
  /\ ExtendMode
  /\ \E e \in FileEntries :
       lower(e.name) \in LowerSet(user_config[1].deny) /\ ~Reported(e)
  /\ \E e \in FileEntries :
       lower(e.name) \in LowerSet(user_config[1].deny) /\ Reported(e)

\* C24: a file named like a system directory is reported as a file violation
\* exactly when its lower-cased name is not an allowed name and it matches no
\* pattern.
C24_VcsExemptionOnlyForDirectories ==
  Scanned =>
    \A e \in FileEntries :
      IsVcsName(e.name) =>
        ((Violation(e.name, FILE_NOT_IN_WHITELIST) \in SetOf(violations))
           <=> (lower(e.name) \notin allowed_files
                /\ ~SomePatternMatches(e.name, patterns)))

\* C24 witness: a reported file named .GIT.
C24_Witness ==
  /\ Scanned
  /\ \E e \in FileEntries : IsVcsName(e.name) /\ Reported(e)

(***************************************************************************)
(* Order of the steps of AutoCommitHandler.handle                          *)
(***************************************************************************)

\* The steps a run may take one after the other: has_changes, should_commit,
\* get_changes and generate, commit, update_state, with the returns between.
HandleOrder ==
  {<<"idle", "main">>, <<"idle", "exited">>, <<"exited", "main">>,
   <<"main", "has_changes">>, <<"main", "exited">>,
   <<"has_changes", "should_commit">>, <<"has_changes", "exited">>,
   <<"should_commit", "generate">>, <<"should_commit", "exited">>,
   <<"generate", "commit">>,
   <<"commit", "update_state">>, <<"commit", "exited">>,
   <<"update_state", "exited">>}

\* C29: a run reaches update_state only from a commit that succeeded; the
\* state file changes only in the update_state step of some run, so it is
\* left as it was when there are no changes, when it is too soon and when
\* the commit fails; and the steps of a run follow the order of handle().
C29_StateUpdatedOnlyAfterCommit ==
  [][/\ \A h \in Hooks :
          /\ hook_pc'[h] # hook_pc[h] => <<hook_pc[h], hook_pc'[h]>> \in HandleOrder
          /\ (hook_pc'[h] = "update_state" /\ hook_pc[h] # "update_state") =>
               /\ hook_pc[h] = "commit"
               /\ git_log' = Append(git_log, now)
          /\ (hook_pc[h] \in {"has_changes", "should_commit"}
                /\ hook_pc'[h] = "exited") => git_log' = git_log
     /\ state_file' # state_file =>
          \E h \in Hooks : hook_pc[h] = "update_state" /\ hook_pc'[h] = "exited"]_vars

\* C29 witness: a commit was made and the state file records a time.
C29_Witness ==
  /\ git_log # <<>>
  /\ state_file # None
  /\ \E h \in Hooks : hook_pc[h] = "exited"

(***************************************************************************)
(* Properties of add_hook_to_pre_commit_config                             *)
(***************************************************************************)

\* What the copy in use does to a config.
add_hook_of_copy(config) ==
  IF hook_copy = "configure_extension" THEN add_hook_configure_extension(config)
  ELSE IF hook_copy = "configure_tools" THEN add_hook_configure_tools(config)
  ELSE add_hook_setup(config)

\* The repos without the hooks that carry the id in local repos.
OtherHooks(repos) ==
  [i \in DOMAIN repos |->
     IF repos[i].repo = "local"
     THEN [repos[i] EXCEPT !.hooks =
             SelectSeq(@, LAMBDA h : h.id # FORBID_ROOT_ARTIFACTS)]
     ELSE repos[i]]

\* Every other repo and hook is where it was, a local repo made for the hook
\* aside.
OthersPreserved ==
  LET before == IF pre_commit_before = None THEN <<>>
                ELSE OtherHooks(pre_commit_before[1])
      after == OtherHooks(pre_commit_config[1])
  IN  after = before \/ after = Append(before, Repo("local", <<>>))

\* C28: after one or more calls of a copy, begun on no file or on a config
\* with at most one such hook, the config holds exactly one hook with the id
\* inside a local repo, one more call leaves it as it is, and the other repos
\* and hooks are preserved in order.
C28_AddHookIsIdempotent ==
  add_calls >= 1 =>
    /\ pre_commit_config # None
    /\ LocalHookCount(pre_commit_config[1]) = 1
    /\ add_hook_of_copy(pre_commit_config) = pre_commit_config
    /\ OthersPreserved

(***************************************************************************)
(* Properties of the configurator                                          *)
(***************************************************************************)

\* The names of the file violations: those without the directory marker.
RECURSIVE FileNamesOf(_)
FileNamesOf(vs) ==
  IF vs = <<>> THEN <<>>
  ELSE LET f == Head(vs).filename
       IN  (IF f[Len(f)] = "/" THEN <<>> ELSE <<f>>) \o FileNamesOf(Tail(vs))

\* find_files_not_in_whitelist has returned.
FilesFound == pc \in {"select", "save"} \/ (pc = "exit" /\ exit_code = 0)

\* The policy configure loaded from the .root-artifacts.yaml it read.
LoadedPolicy == configure_load_user_config(user_doc).value

\* C25: for the listing, the defaults and the user policy configure worked
\* on, the list find_files_not_in_whitelist returned is, in the same order,
\* the names of the file violations check's build_whitelist and
\* find_violations give, whatever allowed_directories is.
C25_ConfigureAgreesWithCheck ==
  FilesFound =>
    \A ad \in AllowedDirectoriesValues :
      LET whitelist == build_whitelist(defaults, LoadedPolicy)
      IN  not_in_whitelist =
            FileNamesOf(find_violations(root_listing, whitelist[1],
                                        whitelist[2], ad))

\* Two files whose names differ in case only are both found, listed by the
\* file system in the order opposite to their spelling.
C25_Witness ==
  /\ FilesFound
  /\ not_in_whitelist = <<n_readme_md, n_README_md>>
  /\ root_listing = <<Entry(n_readme_md, FALSE), Entry(n_README_md, FALSE)>>

\* The document check.py finds after configure: the one saved, else the one
\* that was there.
DocAfterConfigure == IF saved_doc # None THEN saved_doc[1] ELSE user_doc

\* C26: after configure --non-interactive has returned 0, check.py, resolving
\* the .root-artifacts.yaml it finds with the same defaults and scanning the
\* same listing, reports no file violation.
C26_NonInteractiveWhitelistsEveryFile ==
  (pc = "exit" /\ exit_code = 0 /\ non_interactive
     /\ DocAfterConfigure.kind \in {"absent", "mapping"}) =>
    LET policy == load_user_config(DocAfterConfigure)
        whitelist == build_whitelist(defaults, policy)
    IN  FileNamesOf(find_violations(root_listing, whitelist[1], whitelist[2],
                                    main_allowed_directories(policy))) = <<>>

\* The policy read back from the document save_user_config wrote.
SavedPolicy == configure_load_user_config(saved_doc[1]).value[1]

C30_CheckOnlyChangesNothing ==
  check_only =>
    /\ config_file = config_before
    /\ backup_file = backup_before
    /\ save_pc = "not_called"
    /\ mcp_config # Some("servers_b") \/ config_file = Some("servers_b")

====
